---- MODULE Spec2Model ----
(***************************************************************************)
(* The IPC core of src/vs/base/parts/ipc/common/ipc.ts: one ChannelClient  *)
(* and the ChannelServer of its peer over one ordered transport, the       *)
(* deferred requests of the server, the multicast event of the hub and     *)
(* the StaticRouter.                                                       *)
(*                                                                         *)
(* Scheduling follows the JavaScript event loop.  A frame delivery or a    *)
(* timer is a task; the continuations of promises (the dispatch queued on  *)
(* whenInitialized(), the finally() of a call) are microtasks of the       *)
(* client's process, which run before its next task but after the          *)
(* synchronous code of the caller that is running.                         *)
(***************************************************************************)
EXTENDS Integers, Sequences, FiniteSets, TLC

\* ---------------------------------------------------------------- bounds
MaxReqs == 2
MaxAdds == 2
MaxFires == 1
MaxConns == 2
MaxFrames == 2
MaxOutAdds == 2
MaxLen == 2
MaxRegs == 2
MaxListeners == 3
MaxCancels == 2
MaxDisposables == 4
MaxClients == 3

\* ------------------------------------------------------ program constants
Promise == 100
PromiseCancel == 101
EventListen == 102
EventDispose == 103
Initialize == 200
PromiseSuccess == 201
PromiseError == 202
PromiseErrorObj == 203
EventFire == 204

\* delay of the timer of a deferred request, in clock ticks
timeoutDelay == 2

UnknownChannel == "Unknown channel"

ChannelNames == {"c1"}
\* The program never branches on a command name or an argument: the k-th
\* invocation of the caller uses its own pair, so that any two requests differ.
CommandOf(k) == IF k = 1 THEN "m1" ELSE IF k = 2 THEN "m2" ELSE "m3"
ArgOf(k) == IF k = 1 THEN "a1" ELSE IF k = 2 THEN "a2" ELSE "a3"
NoId == -1
Ids == 0 .. (MaxReqs - 1)

VARIABLES
    \* ChannelClient
    state, isDisposed, protocolListener, lastRequestId, handlers,
    activeRequests, reqs, initQueue, finallyQueue,
    \* transport
    c2s, s2c,
    \* ChannelServer
    channels, srvProtocolListener, srvActiveRequests, pendingRequests,
    flushTimers, srv, fired,
    \* IPCServer hub and one multicast event obtained from it
    hubConns, mux, outListeners, outAdds, output, delivered, hubChannels,
    \* StaticRouter.route over the hub's connections
    connections, ctxMatch, route,
    \* one frame through serialize, the transport and deserialize
    codec,
    \* one invocation of ChannelServer.onPromise with its channel's answer
    promiseCall,
    \* one MutableToken with the listeners of its onCancellationRequested
    token,
    \* one DisposableStore and the disposables offered to it
    store,
    \* one invocation of ChannelServer.onEventListen on a channel made by
    \* ProxyChannel.fromService
    listenCall,
    \* the transports the constructor of IPCServer has met, its _connections
    \* and the add and remove events it has fired
    ipcServer,
    \* one call on the channel IPCServer.getChannel(name, clientFilter) returns
    filterCall,
    \* one IPCClient, the frames it has written, and the hub's end of its
    \* transport
    handshake,
    \* the MessagePort (or ipcRenderer channel) of a Client endpoint is closed
    portClosed,
    \* the deferred rows of one channel of a ChannelServer, its registration
    \* and the run of flushPendingRequests for it
    flushRun

clientVars == <<state, isDisposed, protocolListener, lastRequestId, handlers,
                activeRequests, reqs, initQueue, finallyQueue>>
serverVars == <<channels, srvProtocolListener, srvActiveRequests,
                pendingRequests, flushTimers, srv, fired>>
connVars == <<clientVars, c2s, s2c, serverVars>>
hubVars == <<hubConns, mux, outListeners, outAdds, output, delivered,
             hubChannels>>
routerVars == <<connections, ctxMatch, route>>
codecVars == <<codec>>
onPromiseVars == <<promiseCall>>
\* what the actions of one part of the program leave alone
libVars ==
    <<token, store, listenCall, ipcServer, filterCall, handshake, portClosed,
      flushRun>>
hubSide == <<hubVars, routerVars, codecVars, onPromiseVars, libVars>>
restOfHub == <<connVars, routerVars, codecVars, onPromiseVars, hubChannels,
               libVars>>
restOfRouter == <<connVars, hubVars, codecVars, onPromiseVars, libVars>>
restOfCodec == <<connVars, hubVars, routerVars, onPromiseVars, libVars>>
restOfOnPromise == <<connVars, hubVars, routerVars, codecVars, libVars>>
restOfLib == <<connVars, hubVars, routerVars, codecVars, onPromiseVars>>
vars == <<connVars, hubSide>>

\* ---------------------------------------------------------------- helpers
Remove(s, x) == SelectSeq(s, LAMBDA y : y # x)

Min(a, b) == IF a < b THEN a ELSE b

\* the element of a singleton: x \in {e} binds x to the value of e, which is
\* then computed once however often x is used
The(S) == CHOOSE x \in S : TRUE

RequestFrame(type, id, ch, name, arg) ==
    [type |-> type, id |-> id, ch |-> ch, name |-> name, arg |-> arg]

ResponseFrame(type, id, name, data) ==
    [type |-> type, id |-> id, name |-> name, data |-> data]

\* ---------------------------------------------------------- ChannelClient
\* One record per call()/listen() invocation: the closure state of
\* requestPromise/requestEvent plus the counters the properties read.
NewRequest(kind, id, ch, name, arg) ==
    [kind |-> kind, id |-> id, ch |-> ch, name |-> name, arg |-> arg,
     phase |-> "none",            \* "queued": uninitializedPromise # null
     outcome |-> IF kind = "call" THEN "pending" ELSE "na",
     errName |-> "", result |-> "",
     tokenCancelled |-> FALSE, armed |-> FALSE,
     listeners |-> 0, emDisposed |-> FALSE, adds |-> 0,
     nReq |-> 0, nStop |-> 0, cycReq |-> 0, cycStop |-> 0, cycles |-> 0,
     dropped |-> FALSE, late |-> FALSE, termRcvd |-> FALSE, observed |-> 0]

\* (mutant) whenInitialized() resolves whatever the state
RunnableUninitialized == initQueue # <<>>

\* whenInitialized() resolves at once when Idle, else with onDidInitialize
Runnable == state = "Idle" /\ initQueue # <<>>

MicrotasksDrained == ~Runnable /\ finallyQueue = {}

\* sendRequest: the frame a request puts on the wire
SendRequestFrame(r, type) ==
    IF type \in {Promise, EventListen}
    THEN RequestFrame(type, r.id, r.ch, r.name, r.arg)
    ELSE RequestFrame(type, r.id, "", "", "")

\* createCancelablePromise(...).cancel(): the queued continuation never runs
CancelQueued(q, i) == Remove(q, i)

\* (mutant) cancel only tells the server and leaves the future to its reply
CancelCallNoReject(st, i) ==
    LET r == st.reqs[i]
        queued == r.phase = "queued"
    IN [st EXCEPT
          !.reqs[i] = IF queued
                      THEN [r EXCEPT !.phase = "none", !.dropped = TRUE,
                                     !.outcome = "cancelled"]
                      ELSE [r EXCEPT !.nStop = @ + 1],
          !.initQueue = IF queued THEN CancelQueued(@, i) ELSE @,
          !.c2s = IF queued THEN @
                  ELSE Append(@, SendRequestFrame(r, PromiseCancel)),
          !.finallyQueue = IF queued /\ r.outcome = "pending"
                           THEN @ \cup {i} ELSE @]

\* the `cancel` closure of requestPromise, applied to a client state
\* st = [reqs, initQueue, c2s, finallyQueue, activeRequests]
CancelCall(st, i) ==
    LET r == st.reqs[i]
        queued == r.phase = "queued"
        r1 == IF queued
              THEN [r EXCEPT !.phase = "none", !.dropped = TRUE]
              ELSE [r EXCEPT !.nStop = @ + 1]
        r2 == IF r.outcome = "pending"
              THEN [r1 EXCEPT !.outcome = "cancelled"]
              ELSE r1
    IN [st EXCEPT
          !.reqs = [@ EXCEPT ![i] = r2],
          !.initQueue = IF queued THEN CancelQueued(@, i) ELSE @,
          !.c2s = IF queued THEN @
                  ELSE Append(@, SendRequestFrame(r, PromiseCancel)),
          !.finallyQueue = IF r.outcome = "pending" THEN @ \cup {i} ELSE @]

\* (mutant) the last removal always sends Unsubscribe
RemoveLastListenerAlwaysSends(st, i) ==
    LET r == st.reqs[i]
    IN [st EXCEPT
          !.reqs[i] = [r EXCEPT !.phase = "none", !.nStop = @ + 1,
                                !.cycStop = @ + 1, !.cycles = @ + 1,
                                !.dropped = (r.phase = "queued")],
          !.initQueue = CancelQueued(@, i),
          !.activeRequests = Remove(@, i),
          !.c2s = Append(@, SendRequestFrame(r, EventDispose))]

\* onDidRemoveLastListener of the emitter of requestEvent
RemoveLastListener(st, i) ==
    LET r == st.reqs[i]
        queued == r.phase = "queued"
    IN [st EXCEPT
          !.reqs = [@ EXCEPT ![i] =
                      IF queued
                      THEN [r EXCEPT !.phase = "none", !.dropped = TRUE,
                                     !.cycles = @ + 1]
                      ELSE [r EXCEPT !.phase = "none", !.nStop = @ + 1,
                                     !.cycStop = @ + 1, !.cycles = @ + 1]],
          !.initQueue = IF queued THEN CancelQueued(@, i) ELSE @,
          !.activeRequests = IF queued THEN @ ELSE Remove(@, i),
          !.c2s = IF queued THEN @
                  ELSE Append(@, SendRequestFrame(r, EventDispose))]

ClientState ==
    [reqs |-> reqs, initQueue |-> initQueue, c2s |-> c2s,
     finallyQueue |-> finallyQueue, activeRequests |-> activeRequests]

SetClientState(st) ==
    /\ reqs' = st.reqs
    /\ initQueue' = st.initQueue
    /\ c2s' = st.c2s
    /\ finallyQueue' = st.finallyQueue
    /\ activeRequests' = st.activeRequests

\* (mutant) the counter is read but not advanced
NextRequestIdStuck(n) == n

\* `const id = this.lastRequestId++`: the counter after an id was taken
NextRequestId(n) == n + 1

\* doRequest of requestPromise: install the handler, send the Call
DoRequest(i) ==
    /\ handlers' = [handlers EXCEPT ![reqs[i].id] = i]
    /\ c2s' = Append(c2s, SendRequestFrame(reqs[i], Promise))

\* getChannel().call -> requestPromise
Call(ch, name, arg, cancelled) ==
    /\ Len(reqs) < MaxReqs
    /\ LET i == Len(reqs) + 1
           id == lastRequestId
           r == NewRequest("call", id, ch, name, arg)
       IN IF isDisposed
          THEN /\ reqs' = Append(reqs, [r EXCEPT !.id = NoId,
                                                 !.outcome = "cancelled"])
               /\ UNCHANGED <<lastRequestId, handlers, activeRequests,
                              initQueue, c2s>>
          ELSE /\ lastRequestId' = NextRequestId(lastRequestId)
               /\ IF cancelled
                  THEN /\ reqs' = Append(reqs,
                                    [r EXCEPT !.outcome = "cancelled",
                                              !.tokenCancelled = TRUE])
                       /\ UNCHANGED <<handlers, activeRequests, initQueue, c2s>>
                  ELSE /\ activeRequests' = Append(activeRequests, i)
                       /\ IF state = "Idle"
                          THEN /\ reqs' = Append(reqs,
                                            [r EXCEPT !.phase = "sent",
                                                      !.armed = TRUE,
                                                      !.nReq = 1])
                               /\ handlers' = [handlers EXCEPT ![id] = i]
                               /\ c2s' = Append(c2s, SendRequestFrame(r, Promise))
                               /\ UNCHANGED initQueue
                          ELSE /\ reqs' = Append(reqs,
                                            [r EXCEPT !.phase = "queued",
                                                      !.armed = TRUE])
                               /\ initQueue' = Append(initQueue, i)
                               /\ UNCHANGED <<handlers, c2s>>
    /\ UNCHANGED hubSide
    /\ UNCHANGED <<state, isDisposed, protocolListener, finallyQueue, s2c,
                   serverVars>>

\* getChannel().listen -> requestEvent (Event.None on a disposed client)
Listen(ch, name, arg) ==
    /\ Len(reqs) < MaxReqs
    /\ ~isDisposed
    /\ LET i == Len(reqs) + 1
           id == lastRequestId
       IN /\ lastRequestId' = NextRequestId(lastRequestId)
          /\ reqs' = Append(reqs, NewRequest("event", id, ch, name, arg))
          /\ handlers' = [handlers EXCEPT ![id] = i]
    /\ UNCHANGED hubSide
    /\ UNCHANGED <<state, isDisposed, protocolListener, activeRequests,
                   initQueue, finallyQueue, c2s, s2c, serverVars>>

\* Emitter.event: a listener is added to the event of requestEvent
AddListener(i) ==
    /\ i \in 1 .. Len(reqs)
    /\ reqs[i].kind = "event"
    /\ reqs[i].adds < MaxAdds
    /\ LET r == reqs[i]
           first == r.listeners = 0
       IN /\ reqs' = [reqs EXCEPT ![i] =
                IF first
                THEN [r EXCEPT !.listeners = 1, !.adds = @ + 1,
                               !.phase = "queued", !.dropped = FALSE,
                               !.cycReq = 0, !.cycStop = 0]
                ELSE [r EXCEPT !.listeners = @ + 1, !.adds = @ + 1]]
          /\ initQueue' = IF first THEN Append(initQueue, i) ELSE initQueue
    /\ UNCHANGED hubSide
    /\ UNCHANGED <<state, isDisposed, protocolListener, lastRequestId,
                   handlers, activeRequests, finallyQueue, c2s, s2c,
                   serverVars>>

\* the disposable Emitter.event returned: a listener is removed
RemoveListener(i) ==
    /\ i \in 1 .. Len(reqs)
    /\ reqs[i].kind = "event"
    /\ reqs[i].listeners > 0
    /\ ~reqs[i].emDisposed
    /\ LET st == [ClientState EXCEPT !.reqs[i].listeners = @ - 1]
       IN IF reqs[i].listeners = 1
          THEN SetClientState(RemoveLastListener(st, i))
          ELSE SetClientState(st)
    /\ UNCHANGED hubSide
    /\ UNCHANGED <<state, isDisposed, protocolListener, lastRequestId,
                   handlers, s2c, serverVars>>

\* the caller's CancellationTokenSource.cancel()
TokenCancel(i) ==
    /\ i \in 1 .. Len(reqs)
    /\ reqs[i].kind = "call"
    /\ reqs[i].armed
    /\ ~reqs[i].tokenCancelled
    /\ LET st == [ClientState EXCEPT !.reqs[i].tokenCancelled = TRUE]
       IN SetClientState(CancelCall(st, i))
    /\ UNCHANGED hubSide
    /\ UNCHANGED <<state, isDisposed, protocolListener, lastRequestId,
                   handlers, s2c, serverVars>>

\* the continuation queued on whenInitialized() runs (a microtask)
RunQueued ==
    /\ Runnable
    /\ LET i == Head(initQueue)
           r == reqs[i]
       IN /\ initQueue' = Tail(initQueue)
          /\ IF r.kind = "call"
             THEN /\ DoRequest(i)
                  /\ reqs' = [reqs EXCEPT ![i] =
                                [r EXCEPT !.phase = "sent", !.nReq = @ + 1]]
                  /\ UNCHANGED activeRequests
             ELSE /\ activeRequests' =
                        IF \E k \in 1 .. Len(activeRequests) : activeRequests[k] = i
                        THEN activeRequests
                        ELSE Append(activeRequests, i)
                  /\ c2s' = Append(c2s, SendRequestFrame(r, EventListen))
                  /\ reqs' = [reqs EXCEPT ![i] =
                                [r EXCEPT !.phase = "sent", !.nReq = @ + 1,
                                          !.cycReq = @ + 1]]
                  /\ UNCHANGED handlers
    /\ UNCHANGED hubSide
    /\ UNCHANGED <<state, isDisposed, protocolListener, lastRequestId,
                   finallyQueue, s2c, serverVars>>

\* result.finally(() => activeRequests.delete(disposable)) (a microtask)
RunFinally(i) ==
    /\ i \in finallyQueue
    /\ finallyQueue' = finallyQueue \ {i}
    /\ activeRequests' = Remove(activeRequests, i)
    /\ UNCHANGED hubSide
    /\ UNCHANGED <<state, isDisposed, protocolListener, lastRequestId,
                   handlers, reqs, initQueue, c2s, s2c, serverVars>>

\* indices of the invocations that took id
ReqsOfId(id) == {k \in 1 .. Len(reqs) : reqs[k].id = id}

\* the handler closure `handler` of doRequest (requestPromise), applied to
\* a response frame
CallHandler(r, f) ==
    LET settled == r.outcome # "pending"
        r1 == IF settled THEN [r EXCEPT !.late = TRUE] ELSE r
    IN CASE f.type = PromiseSuccess ->
              IF settled THEN r1
              ELSE [r1 EXCEPT !.outcome = "ok", !.result = f.data]
         [] f.type = PromiseError ->
              IF settled THEN r1
              ELSE [r1 EXCEPT !.outcome = "err", !.errName = f.name]
         [] f.type = PromiseErrorObj ->
              IF settled THEN r1
              ELSE [r1 EXCEPT !.outcome = "errobj", !.result = f.data]
         [] OTHER -> r1

\* the handler of requestEvent: emitter.fire(res.data)
EventHandler(r, f) ==
    IF r.listeners > 0 THEN [r EXCEPT !.observed = Min(@ + 1, MaxFires + 1)]
    ELSE r

IsHandlerTerminal(f) ==
    /\ f.type \in {PromiseSuccess, PromiseError, PromiseErrorObj}
    /\ f.name # UnknownChannel

\* protocol.onMessage -> onBuffer -> onResponse
ClientReceive ==
    /\ protocolListener
    /\ s2c # <<>>
    /\ MicrotasksDrained
    /\ LET f == Head(s2c)
           h == IF f.type = Initialize THEN 0 ELSE handlers[f.id]
       IN /\ s2c' = Tail(s2c)
          /\ IF f.type = Initialize
             THEN /\ state' = "Idle"
                  /\ UNCHANGED <<handlers, reqs, finallyQueue>>
             ELSE /\ state' = state
                  /\ LET seen == [k \in 1 .. Len(reqs) |->
                                    IF reqs[k].id = f.id /\ reqs[k].kind = "call"
                                       /\ IsHandlerTerminal(f)
                                    THEN [reqs[k] EXCEPT !.termRcvd = TRUE]
                                    ELSE reqs[k]]
                     IN IF h = 0
                        THEN /\ reqs' = seen
                             /\ UNCHANGED <<handlers, finallyQueue>>
                        ELSE IF seen[h].kind = "call"
                        THEN /\ reqs' = [seen EXCEPT ![h] = CallHandler(@, f)]
                             /\ handlers' =
                                  IF f.type \in {PromiseSuccess, PromiseError,
                                                 PromiseErrorObj}
                                  THEN [handlers EXCEPT ![seen[h].id] = 0]
                                  ELSE handlers
                             /\ finallyQueue' =
                                  IF seen[h].outcome = "pending"
                                     /\ f.type \in {PromiseSuccess, PromiseError,
                                                    PromiseErrorObj}
                                  THEN finallyQueue \cup {h}
                                  ELSE finallyQueue
                        ELSE /\ reqs' = [seen EXCEPT ![h] = EventHandler(@, f)]
                             /\ UNCHANGED <<handlers, finallyQueue>>
    /\ UNCHANGED hubSide
    /\ UNCHANGED <<isDisposed, protocolListener, lastRequestId, activeRequests,
                   initQueue, c2s, serverVars>>

\* Emitter.dispose() of the emitter of requestEvent
DisposeEmitter(st, i) ==
    IF st.reqs[i].emDisposed THEN st
    ELSE RemoveLastListener(
           [st EXCEPT !.reqs[i].emDisposed = TRUE, !.reqs[i].listeners = 0], i)

\* combinedDisposable(toDisposable(cancel), cancellationTokenListener)
DisposeCall(st, i) ==
    LET st1 == CancelCall(st, i)
    IN [st1 EXCEPT !.reqs[i].armed = FALSE]

RECURSIVE DisposeAll(_, _)
\* dispose(this.activeRequests.values()), in insertion order
DisposeAll(st, todo) ==
    IF todo = <<>> THEN st
    ELSE LET i == Head(todo)
             st1 == IF st.reqs[i].kind = "call"
                    THEN DisposeCall(st, i)
                    ELSE DisposeEmitter(st, i)
         IN DisposeAll(st1, Tail(todo))

\* (mutant) dispose() without `this.isDisposed = true`
DisposeClientUnmarked ==
    /\ isDisposed' = isDisposed
    /\ protocolListener' = FALSE
    /\ SetClientState([DisposeAll(ClientState, activeRequests)
                         EXCEPT !.activeRequests = <<>>])

\* the body of ChannelClient.dispose()
DisposeClient ==
    /\ isDisposed' = TRUE
    /\ protocolListener' = FALSE
    /\ SetClientState([DisposeAll(ClientState, activeRequests)
                         EXCEPT !.activeRequests = <<>>])

\* ChannelClient.dispose()
ClientDispose ==
    /\ ~isDisposed
    /\ DisposeClient
    /\ UNCHANGED hubSide
    /\ UNCHANGED <<state, lastRequestId, handlers, s2c, serverVars>>

\* ---------------------------------------------------------- ChannelServer
\* per request id: what the channel's handler has seen and what the server
\* has emitted for it
NoServerRow ==
    [invocations |-> 0, running |-> 0, hName |-> "", hArg |-> "",
     tokenCancelled |-> FALSE, listeners |-> 0,
     deferred |-> FALSE, timedOut |-> 0, timeoutAge |-> 0, terminals |-> 0,
     lateDispatch |-> FALSE]

ServerState ==
    [srv |-> srv, active |-> srvActiveRequests, pending |-> pendingRequests,
     s2c |-> s2c]

SetServerState(sst) ==
    /\ srv' = sst.srv
    /\ srvActiveRequests' = sst.active
    /\ pendingRequests' = sst.pending
    /\ s2c' = sst.s2c

\* (mutant) the timer is armed without the delay
TimerDelayNone == timeoutDelay - timeoutDelay

\* the delay collectPendingRequest arms the timer of a deferred request with
TimerDelay == timeoutDelay

\* collectPendingRequest: defer a request for an unknown channel
CollectPendingRequest(sst, req) ==
    [sst EXCEPT !.pending[req.ch] =
        Append(@, [type |-> req.type, id |-> req.id, ch |-> req.ch,
                   name |-> req.name, arg |-> req.arg,
                   timer |-> "armed", remaining |-> TimerDelay, age |-> 0]),
                !.srv[req.id].deferred = TRUE]

\* channel.call(ctx, name, arg, token) and activeRequests.set(id, disposable)
OnPromiseDispatch(sst, req) ==
    [sst EXCEPT
       !.srv[req.id] = [@ EXCEPT !.invocations = Min(@ + 1, 2),
                                 !.running = Min(@ + 1, 2),
                                 !.hName = req.name, !.hArg = req.arg,
                                 !.tokenCancelled = FALSE,
                                 !.lateDispatch = (@ \/ sst.srv[req.id].timedOut > 0)],
       !.active[req.id] = "call"]

\* onPromise
OnPromise(sst, req) ==
    IF req.ch \notin channels
    THEN CollectPendingRequest(sst, req)
    ELSE OnPromiseDispatch(sst, req)

\* onEventListen
OnEventListen(sst, req) ==
    IF req.ch \notin channels
    THEN CollectPendingRequest(sst, req)
    ELSE [sst EXCEPT !.srv[req.id].listeners = Min(@ + 1, 2),
                     !.active[req.id] = "event"]

\* disposable.dispose() of a row of activeRequests
DisposeActive(sst, id) ==
    IF sst.active[id] = "call"
    THEN [sst EXCEPT !.srv[id].tokenCancelled = TRUE]
    ELSE [sst EXCEPT !.srv[id].listeners = IF @ > 0 THEN @ - 1 ELSE 0]

\* (mutant) a Cancel or Unsubscribe also withdraws the deferred rows of its id
DisposeActiveRequestDropsPending(sst, id) ==
    [(IF sst.active[id] # "none"
          THEN [DisposeActive(sst, id) EXCEPT !.active[id] = "none"]
          ELSE sst)
       EXCEPT !.pending = [ch \in ChannelNames |->
                              SelectSeq(sst.pending[ch], LAMBDA row : row.id # id)]]

\* disposeActiveRequest
DisposeActiveRequest(sst, id) ==
    IF sst.active[id] # "none"
    THEN [DisposeActive(sst, id) EXCEPT !.active[id] = "none"]
    ELSE sst

\* protocol.onMessage -> onRawMessage
ServerReceive ==
    /\ srvProtocolListener
    /\ c2s # <<>>
    /\ LET f == Head(c2s)
       IN /\ c2s' = Tail(c2s)
          /\ SetServerState(
               CASE f.type = Promise -> OnPromise(ServerState, f)
                 [] f.type = EventListen -> OnEventListen(ServerState, f)
                 [] f.type \in {PromiseCancel, EventDispose} ->
                        DisposeActiveRequest(ServerState, f.id)
                 [] OTHER -> ServerState)
    /\ UNCHANGED hubSide
    /\ UNCHANGED <<clientVars, channels, srvProtocolListener, flushTimers, fired>>

\* registerChannel: set the mapping, setTimeout(flushPendingRequests, 0)
RegisterChannel(ch) ==
    /\ ch \notin channels
    /\ channels' = channels \cup {ch}
    /\ flushTimers' = Append(flushTimers, ch)
    /\ UNCHANGED hubSide
    /\ UNCHANGED <<clientVars, c2s, s2c, srvProtocolListener,
                   srvActiveRequests, pendingRequests, srv, fired>>

\* (mutant) the rows are dropped without being dispatched
FlushRowsDropped(sst, rows) == sst

RECURSIVE FlushRows(_, _)
\* the loop of flushPendingRequests: clearTimeout, then dispatch again
FlushRows(sst, rows) ==
    IF rows = <<>> THEN sst
    ELSE LET row == Head(rows)
             sst1 == IF row.type = Promise THEN OnPromise(sst, row)
                     ELSE OnEventListen(sst, row)
         IN FlushRows(sst1, Tail(rows))

\* the timer of registerChannel fires: flushPendingRequests(channelName)
FlushPendingRequests ==
    /\ flushTimers # <<>>
    /\ LET ch == Head(flushTimers)
           rows == pendingRequests[ch]
           sst == [ServerState EXCEPT !.pending[ch] = <<>>]
       IN /\ flushTimers' = Tail(flushTimers)
          /\ SetServerState(FlushRows(sst, rows))
    /\ UNCHANGED hubSide
    /\ UNCHANGED <<clientVars, c2s, channels, srvProtocolListener, fired>>

\* the response the timer of a deferred request emits
TimeoutResponse(row) ==
    ResponseFrame(PromiseError, row.id, UnknownChannel, "")

\* (mutant) the timer answers whatever the type of the request
PendingTimeoutAlwaysResponds(ch, k) ==
    /\ k \in 1 .. Len(pendingRequests[ch])
    /\ LET row == pendingRequests[ch][k]
       IN /\ row.timer = "armed"
          /\ row.remaining = 0
          /\ pendingRequests' = [pendingRequests EXCEPT ![ch][k].timer = "fired"]
          /\ s2c' = Append(s2c, TimeoutResponse(row))
          /\ srv' = [srv EXCEPT ![row.id].timedOut = Min(@ + 1, 2),
                                ![row.id].timeoutAge = row.age]
    /\ UNCHANGED hubSide
    /\ UNCHANGED <<clientVars, c2s, channels, srvProtocolListener,
                   srvActiveRequests, flushTimers, fired>>

\* the timer of collectPendingRequest fires
PendingTimeout(ch, k) ==
    /\ k \in 1 .. Len(pendingRequests[ch])
    /\ LET row == pendingRequests[ch][k]
       IN /\ row.timer = "armed"
          /\ row.remaining = 0
          /\ pendingRequests' = [pendingRequests EXCEPT ![ch][k].timer = "fired"]
          /\ IF row.type = Promise
             THEN /\ s2c' = Append(s2c, TimeoutResponse(row))
                  /\ srv' = [srv EXCEPT ![row.id].timedOut = Min(@ + 1, 2),
                                        ![row.id].timeoutAge = row.age]
             ELSE UNCHANGED <<s2c, srv>>
    /\ UNCHANGED hubSide
    /\ UNCHANGED <<clientVars, c2s, channels, srvProtocolListener,
                   srvActiveRequests, flushTimers, fired>>

\* one unit of time passes for the armed timers; the timer registerChannel
\* set with delay 0 is due before any timer that is not yet due
Tick ==
    /\ flushTimers = <<>>
    /\ \E ch \in ChannelNames : \E k \in 1 .. Len(pendingRequests[ch]) :
          pendingRequests[ch][k].timer = "armed"
          /\ pendingRequests[ch][k].remaining > 0
    /\ pendingRequests' =
         [ch \in ChannelNames |->
            [k \in 1 .. Len(pendingRequests[ch]) |->
               LET row == pendingRequests[ch][k]
               IN IF row.timer = "armed"
                  THEN [row EXCEPT !.remaining = IF @ > 0 THEN @ - 1 ELSE 0,
                                   !.age = Min(@ + 1, timeoutDelay)]
                  ELSE row]]
    /\ UNCHANGED hubSide
    /\ UNCHANGED <<clientVars, c2s, s2c, channels, srvProtocolListener,
                   srvActiveRequests, flushTimers, srv, fired>>

\* err.stack: absent, a text, or a value without a split method
NoStack == [k |-> "absent", text |-> <<>>]
TextStack(t) == [k |-> "text", text |-> t]
RawStack == [k |-> "raw", text |-> <<>>]

\* what a handler resolves with, rejects with or throws: an instance of Error
\* or any other value
ErrorValue(message, name, stack) ==
    [isError |-> TRUE, message |-> message, name |-> name, stack |-> stack,
     payload |-> ""]
OtherValue(payload) ==
    [isError |-> FALSE, message |-> "", name |-> "", stack |-> NoStack,
     payload |-> payload]

\* what channel.call(ctx, name, arg, token) does
Resolves(v) == [how |-> "resolve", v |-> OtherValue(v)]
Rejects(e) == [how |-> "reject", v |-> e]
Throws(e) == [how |-> "throw", v |-> e]

RECURSIVE Split(_, _, _)
\* err.stack.split('\n'): cur is the line being read
Split(t, cur, lines) ==
    IF t = <<>> THEN Append(lines, cur)
    ELSE IF Head(t) = 10 THEN Split(Tail(t), <<>>, Append(lines, cur))
    ELSE Split(Tail(t), Append(cur, Head(t)), lines)

\* err.stack ? (err.stack.split ? err.stack.split('\n') : err.stack) : undefined
StackData(stack) ==
    IF stack.k = "absent" \/ (stack.k = "text" /\ stack.text = <<>>)
        THEN [k |-> "absent", lines |-> <<>>]
    ELSE IF stack.k = "text"
        THEN [k |-> "lines", lines |-> Split(stack.text, <<>>, <<>>)]
    ELSE [k |-> "raw", lines |-> <<>>]

\* (mutant) channel.call outside of try/catch: a throw leaves onPromise
CallChannelUncaught(outcome) ==
    CASE outcome.how = "resolve" -> [settled |-> "fulfilled", v |-> outcome.v]
      [] outcome.how = "reject" -> [settled |-> "rejected", v |-> outcome.v]
      [] OTHER -> [settled |-> "never", v |-> outcome.v]

\* try { promise = channel.call(...) } catch (err) { promise = Promise.reject(err) }
CallChannel(outcome) ==
    CASE outcome.how = "resolve" -> [settled |-> "fulfilled", v |-> outcome.v]
      [] OTHER -> [settled |-> "rejected", v |-> outcome.v]

\* promise.then(data => ..., err => ...) of onPromise: the frames it sends
OnPromiseThen(id, promise) ==
    CASE promise.settled = "fulfilled" ->
            <<ResponseFrame(PromiseSuccess, id, "", promise.v.payload)>>
      [] promise.settled = "rejected" /\ promise.v.isError ->
            <<ResponseFrame(PromiseError, id, promise.v.name,
                            [message |-> promise.v.message,
                             name |-> promise.v.name,
                             stack |-> StackData(promise.v.stack)])>>
      [] promise.settled = "rejected" /\ ~promise.v.isError ->
            <<ResponseFrame(PromiseErrorObj, id, "", promise.v.payload)>>
      [] OTHER -> <<>>

\* how the future of a handler of the system settles
HandlerOutcome(how, arg) ==
    CASE how = "ok" -> Resolves(arg)
      [] how = "err" ->
            Rejects(ErrorValue("failed", "Error", TextStack(<<97, 10, 98>>)))
      [] OTHER -> Rejects(OtherValue(arg))

\* the response of onPromise for a handler future that settled
HandlerResponse(id, how, arg) ==
    OnPromiseThen(id, CallChannel(HandlerOutcome(how, arg)))[1]

\* the values one invocation of onPromise is run on
StackSamples ==
    {NoStack, RawStack, TextStack(<<>>), TextStack(<<97>>),
     TextStack(<<97, 10, 98>>), TextStack(<<97, 10>>), TextStack(<<10, 10>>)}

ThrownValues ==
    {ErrorValue("failed", nm, st) : nm \in {"Error", "TypeError"},
                                   st \in StackSamples}
    \cup {OtherValue(v) : v \in {"a1", "errorLike"}}

HandlerOutcomes ==
    {Resolves(v) : v \in {"a1", "a2"}}
    \cup {Rejects(e) : e \in ThrownValues}
    \cup {Throws(e) : e \in ThrownValues}

\* onPromise at its entry for a request whose channel is registered
PromiseCallOf(pc, id, outcome) ==
    [pc |-> pc, id |-> id, outcome |-> outcome,
     promise |-> [settled |-> "none", v |-> OtherValue("")],
     row |-> FALSE, response |-> <<>>]

PromiseCalls ==
    {PromiseCallOf("entry", id, o) : id \in Ids, o \in HandlerOutcomes}

\* onPromise up to its return: the handler is called, the then-callbacks are
\* registered and the row is put into activeRequests
OnPromiseCall ==
    /\ promiseCall.pc = "entry"
    /\ promiseCall' = [promiseCall EXCEPT
                         !.pc = "called",
                         !.promise = CallChannel(promiseCall.outcome),
                         !.row = TRUE]
    /\ UNCHANGED restOfOnPromise

\* the continuation of promise.then: sendResponse, activeRequests.delete
OnPromiseSettled ==
    /\ promiseCall.pc = "called"
    /\ promiseCall.promise.settled # "never"
    /\ promiseCall' = [promiseCall EXCEPT
                         !.pc = "responded",
                         !.response = OnPromiseThen(promiseCall.id,
                                                    promiseCall.promise),
                         !.row = FALSE]
    /\ UNCHANGED restOfOnPromise

\* no invocation is under way
OnPromiseInit == promiseCall = PromiseCallOf("idle", NoId, Resolves(""))

\* the future of channel.call settles: promise.then(...) of onPromise
HandlerSettle(id, how) ==
    /\ srv[id].running > 0
    /\ s2c' = Append(s2c, HandlerResponse(id, how, srv[id].hArg))
    /\ srv' = [srv EXCEPT ![id].running = @ - 1,
                          ![id].terminals = Min(@ + 1, 2)]
    /\ srvActiveRequests' = [srvActiveRequests EXCEPT ![id] = "none"]
    /\ UNCHANGED hubSide
    /\ UNCHANGED <<clientVars, c2s, channels, srvProtocolListener,
                   pendingRequests, flushTimers, fired>>

\* the event of channel.listen fires: one EventFire per listener of onEventListen
HandlerFire(id) ==
    /\ fired < MaxFires
    /\ srv[id].listeners > 0
    /\ fired' = fired + 1
    /\ s2c' = s2c \o [k \in 1 .. srv[id].listeners |->
                        ResponseFrame(EventFire, id, "", "v")]
    /\ UNCHANGED hubSide
    /\ UNCHANGED <<clientVars, c2s, channels, srvProtocolListener,
                   srvActiveRequests, pendingRequests, flushTimers, srv>>

\* (mutant) the rows are forgotten without being disposed
DisposeAllActiveSkipped(sst, ids) == sst

RECURSIVE DisposeAllActive(_, _)
\* dispose(this.activeRequests.values())
DisposeAllActive(sst, ids) ==
    IF ids = {} THEN sst
    ELSE LET id == CHOOSE x \in ids : TRUE
         IN DisposeAllActive(DisposeActive(sst, id), ids \ {id})

\* the body of ChannelServer.dispose()
DisposeServer ==
    /\ srvProtocolListener' = FALSE
    /\ LET sst == DisposeAllActive(ServerState,
                     {id \in Ids : srvActiveRequests[id] # "none"})
       IN SetServerState([sst EXCEPT !.active = [id \in Ids |-> "none"]])

\* ChannelServer.dispose()
ServerDispose ==
    /\ srvProtocolListener
    /\ DisposeServer
    /\ UNCHANGED hubSide
    /\ UNCHANGED <<clientVars, c2s, channels, flushTimers, fired>>

\* The listener IPCServer's constructor puts on onDidClientDisconnect of a
\* connection: channelServer.dispose(), then channelClient.dispose().  The two
\* halves of a connection share nothing but the protocol; the ChannelClient
\* and the ChannelServer of this module stand for them, each in a state its
\* class can be in.
OnDidClientDisconnect ==
    /\ srvProtocolListener
    /\ ~isDisposed
    /\ DisposeServer
    /\ DisposeClient
    /\ UNCHANGED hubSide
    /\ UNCHANGED <<state, lastRequestId, handlers, channels, flushTimers, fired>>

\* ------------------------------------------------- IPCServer: the hub
\* The connections of the hub, the ChannelClient the hub keeps for each, and
\* one multicast event getMulticastEvent(channelName, clientFilter, eventName,
\* arg) with its EventMultiplexer.
\* delivered[c]: the payloads of the EventFire frames connection c's client
\* read for its current subscription; output[c]: the payloads the multicast
\* emitter fired for frames of connection c, in the order it fired them.
Conns == 1 .. MaxConns

\* the emitter requestEvent returns for the current listen() of a connection
NoEmitter ==
    [id |-> NoId, listeners |-> 0, phase |-> "none", disposed |-> FALSE]

\* the names IPCServer.registerChannel is called with and the handlers
\* (0: none); a name may be registered again with another handler.
\* hubChannels.order: the keys of this.channels in insertion order
HubChannelNames == {"c1", "c2"}
HubHandlers == {1, 2}
NoChannels == [n \in HubChannelNames |-> 0]

\* channels, flushTimers: the channels map of the connection's ChannelServer
\* and the timers its registerChannel has set
NoConnection ==
    [status |-> "none", match |-> FALSE, state |-> "Uninitialized",
     lastRequestId |-> 0, em |-> NoEmitter, inMux |-> FALSE, hooked |-> FALSE,
     inbox |-> <<>>, produced |-> 0,
     channels |-> NoChannels, flushTimers |-> <<>>]

\* ChannelServer.registerChannel of a connection's server
ServerRegisterChannel(k, n, h) ==
    [k EXCEPT !.channels[n] = h, !.flushTimers = Append(@, n)]

RECURSIVE RegisterKnownChannels(_, _, _)
\* this.channels.forEach((channel, name) => channelServer.registerChannel(...))
RegisterKnownChannels(k, known, names) ==
    IF names = <<>> THEN k
    ELSE RegisterKnownChannels(
             ServerRegisterChannel(k, Head(names), known[Head(names)]),
             known, Tail(names))

\* (mutant) registerChannel keeps the channel for future connections only
RegisterOnNoConnection(conns, n, h) == conns

\* this._connections.forEach(c => c.channelServer.registerChannel(name, channel))
RegisterOnConnections(conns, n, h) ==
    [c \in DOMAIN conns |->
        IF conns[c].status = "live" THEN ServerRegisterChannel(conns[c], n, h)
        ELSE conns[c]]

\* channel.listen(eventName, arg): requestEvent takes an id and sets the handler
ChannelListen(k) ==
    [k EXCEPT !.em = [id |-> k.lastRequestId, listeners |-> 0,
                      phase |-> "none", disposed |-> FALSE],
              !.lastRequestId = NextRequestId(k.lastRequestId)]

\* emitter.event(listener): the first listener queues the Subscribe behind
\* whenInitialized()
EmitterAdd(k) ==
    [k EXCEPT !.em.listeners = @ + 1,
              !.em.phase = IF k.em.listeners = 0 THEN "queued" ELSE @]

\* the listener's disposable: the last listener cancels the queued Subscribe
\* or sends the Unsubscribe; a disposed emitter ignores the removal
EmitterRemove(k) ==
    IF k.em.disposed \/ k.em.listeners = 0
        THEN k
        ELSE [k EXCEPT !.em.listeners = @ - 1,
                       !.em.phase = IF k.em.listeners = 1 THEN "none" ELSE @]

\* emitter.dispose(), run by ChannelClient.dispose over activeRequests
EmitterDispose(k) ==
    [k EXCEPT !.em.listeners = 0, !.em.phase = "none", !.em.disposed = TRUE]

\* Emitter.fire: one delivery for each listener
Deliveries(n, v) == [j \in 1 .. n |-> v]

MuxHook(k) == [EmitterAdd(k) EXCEPT !.hooked = TRUE]

MuxUnhook(k) ==
    IF k.hooked THEN [EmitterRemove(k) EXCEPT !.hooked = FALSE] ELSE k

MuxAddAlwaysHooks(k, hasListeners) == MuxHook([k EXCEPT !.inMux = TRUE])

\* EventMultiplexer.add: the event is hooked only while the multiplexer has
\* listeners
MuxAdd(k, hasListeners) ==
    IF hasListeners
        THEN MuxHook([k EXCEPT !.inMux = TRUE])
        ELSE [k EXCEPT !.inMux = TRUE]

\* the disposable add returns
MuxRemove(k, hasListeners) ==
    [(IF hasListeners THEN MuxUnhook(k) ELSE k) EXCEPT !.inMux = FALSE]

MuxOnFirstListenerAdd(k) == IF k.inMux THEN MuxHook(k) ELSE k

\* (mutant) the store is disposed without the multiplexer unhooking
MuxOnLastListenerRemoveKeeps(k) == [k EXCEPT !.inMux = FALSE]

\* onLastListenerRemove, then the multiplexer is disposed with the store
MuxOnLastListenerRemove(k) ==
    IF k.inMux THEN [MuxUnhook(k) EXCEPT !.inMux = FALSE] ELSE k

OnDidAddConnection(k, hasListeners) == MuxAdd(ChannelListen(k), hasListeners)

OnDidRemoveConnection(k, hasListeners) ==
    IF k.inMux THEN MuxRemove(k, hasListeners) ELSE k

\* a client sends its context: the hub creates the connection and fires
\* onDidAddConnection, which the multicast event filters by clientFilter
HubClientConnect(c, m) ==
    /\ hubConns[c].status = "none"
    /\ \A d \in Conns : d < c => hubConns[d].status # "none"
    /\ hubConns' =
          [hubConns EXCEPT ![c] =
              LET k == RegisterKnownChannels(
                           [@ EXCEPT !.status = "live", !.match = m],
                           hubChannels.handler, hubChannels.order)
              IN  IF mux.active /\ m
                      THEN OnDidAddConnection(k, mux.hasListeners)
                      ELSE k]
    /\ UNCHANGED <<mux, outListeners, outAdds, output, delivered>>
    /\ UNCHANGED restOfHub

\* the connection's client reads the Initialize frame
HubInitialize(c) ==
    /\ hubConns[c].status = "live"
    /\ hubConns[c].state = "Uninitialized"
    /\ hubConns' = [hubConns EXCEPT ![c].state = "Idle"]
    /\ UNCHANGED <<mux, outListeners, outAdds, output, delivered>>
    /\ UNCHANGED restOfHub

\* the queued Subscribe of the connection's client is sent
HubRunQueued(c) ==
    /\ hubConns[c].state = "Idle"
    /\ hubConns[c].em.phase = "queued"
    /\ hubConns' = [hubConns EXCEPT ![c].em.phase = "sent"]
    /\ UNCHANGED <<mux, outListeners, outAdds, output, delivered>>
    /\ UNCHANGED restOfHub

\* the remote end of a subscribed connection emits its next EventFire frame
RemoteFire(c) ==
    /\ hubConns[c].status = "live"
    /\ hubConns[c].em.phase = "sent"
    /\ hubConns[c].produced < MaxFrames
    /\ hubConns' =
          [hubConns EXCEPT
              ![c].produced = @ + 1,
              ![c].inbox = Append(@, [id |-> hubConns[c].em.id,
                                      n |-> hubConns[c].produced + 1])]
    /\ UNCHANGED <<mux, outListeners, outAdds, output, delivered>>
    /\ UNCHANGED restOfHub

\* onBuffer -> onResponse -> handler -> emitter.fire -> the multiplexer's
\* listener -> the multiplexer's emitter -> the multicast emitter
HubClientReceive(c) ==
    LET k == hubConns[c]
        f == Head(k.inbox)
        toMux == IF f.id = k.em.id
                     THEN Deliveries(k.em.listeners, f.n)
                     ELSE <<>>
        toOut == IF mux.hasListeners THEN toMux ELSE <<>>
    IN  /\ k.status = "live"
        /\ k.inbox # <<>>
        /\ ~(k.state = "Idle" /\ k.em.phase = "queued")
        /\ hubConns' = [hubConns EXCEPT ![c].inbox = Tail(@)]
        /\ output' = IF outListeners > 0
                         THEN [output EXCEPT ![c] = @ \o toOut]
                         ELSE output
        /\ delivered' =
              [delivered EXCEPT ![c] =
                  IF f.id = k.em.id /\ k.em.phase = "sent"
                      THEN Append(@, f.n) ELSE @]
        /\ UNCHANGED <<mux, outListeners, outAdds>>
        /\ UNCHANGED restOfHub

\* onDidClientDisconnect: the client is disposed (its active emitters with
\* it), the connection leaves the hub and onDidRemoveConnection fires
HubClientDisconnect(c) ==
    /\ hubConns[c].status = "live"
    /\ hubConns' =
          [hubConns EXCEPT ![c] =
              LET k0 == [@ EXCEPT !.status = "removed"]
                  k1 == IF k0.em.phase = "sent" THEN EmitterDispose(k0) ELSE k0
              IN  IF mux.active
                      THEN OnDidRemoveConnection(k1, mux.hasListeners)
                      ELSE k1]
    /\ UNCHANGED <<mux, outListeners, outAdds, output, delivered>>
    /\ UNCHANGED restOfHub

\* a listener is added to the multicast event; the first one hooks up to
\* every matching connection
AddOutListener ==
    /\ outAdds < MaxOutAdds
    /\ outAdds' = outAdds + 1
    /\ outListeners' = outListeners + 1
    /\ IF outListeners = 0
          THEN /\ mux' = [active |-> TRUE, hasListeners |-> TRUE]
               /\ hubConns' =
                     [c \in Conns |->
                         LET k == hubConns[c]
                         IN  IF k.status = "live" /\ k.match
                                 THEN MuxOnFirstListenerAdd(
                                          OnDidAddConnection(k, FALSE))
                                 ELSE k]
          ELSE UNCHANGED <<mux, hubConns>>
    /\ UNCHANGED <<output, delivered>>
    /\ UNCHANGED restOfHub

\* a listener of the multicast event is disposed; the last one disposes the
\* store: the hub listeners, the multiplexer's listener and the multiplexer
RemoveOutListener ==
    /\ outListeners > 0
    /\ outListeners' = outListeners - 1
    /\ IF outListeners = 1
          THEN /\ mux' = [active |-> FALSE, hasListeners |-> FALSE]
               /\ hubConns' =
                     [c \in Conns |-> MuxOnLastListenerRemove(hubConns[c])]
          ELSE UNCHANGED <<mux, hubConns>>
    /\ UNCHANGED <<outAdds, output, delivered>>
    /\ UNCHANGED restOfHub

\* IPCServer.registerChannel
HubRegisterChannel(n, h) ==
    /\ hubChannels.regs < MaxRegs
    /\ hubChannels' = [handler |-> [hubChannels.handler EXCEPT ![n] = h],
                       order |-> IF hubChannels.handler[n] # 0
                                     THEN hubChannels.order
                                     ELSE Append(hubChannels.order, n),
                       regs |-> hubChannels.regs + 1]
    /\ hubConns' = RegisterOnConnections(hubConns, n, h)
    /\ UNCHANGED <<mux, outListeners, outAdds, output, delivered>>
    /\ UNCHANGED <<connVars, routerVars, codecVars, onPromiseVars, libVars>>

\* the timer of a connection's registerChannel fires: flushPendingRequests
\* for a channel nothing is deferred for
HubFlushPendingRequests(c) ==
    /\ hubConns[c].flushTimers # <<>>
    /\ hubConns' = [hubConns EXCEPT ![c].flushTimers = Tail(@)]
    /\ UNCHANGED <<mux, outListeners, outAdds, output, delivered>>
    /\ UNCHANGED restOfHub

HubInit ==
    /\ hubChannels = [handler |-> NoChannels, order |-> <<>>, regs |-> 0]
    /\ hubConns = [c \in Conns |-> NoConnection]
    /\ mux = [active |-> FALSE, hasListeners |-> FALSE]
    /\ outListeners = 0
    /\ outAdds = 0
    /\ output = [c \in Conns |-> <<>>]
    /\ delivered = [c \in Conns |-> <<>>]

\* ------------------------------------------------------- StaticRouter
\* route(hub) over hub.connections (in insertion order); ctxMatch[c] is what
\* fn(connection.ctx) yields for a connection that has been added.
\* emptyAtCall: the hub had no connection when the route was issued.
NoRoute ==
    [pc |-> "idle", async |-> FALSE, snapshot |-> <<>>, idx |-> 0,
     result |-> 0, emptyAtCall |-> FALSE]

\* the body of route up to its first await: the for loop over the array
\* hub.connections returned, or Event.toPromise(hub.onDidAddConnection)
RouteEnter(r, conns) ==
    IF conns = <<>>
        THEN [r EXCEPT !.pc = "waitAdd", !.snapshot = <<>>, !.idx = 0]
        ELSE [r EXCEPT !.pc = "awaitFn", !.snapshot = conns, !.idx = 1]

\* other tasks of the event loop run only between the router's microtasks:
\* an awaited boolean resumes in a microtask, an awaited promise of fn later
TaskMayRun ==
    /\ route.pc # "resumed"
    /\ route.pc = "awaitFn" => route.async

\* routeCall / routeEvent
RouteCall(a) ==
    /\ route.pc = "idle"
    /\ route' = RouteEnter([route EXCEPT !.async = a,
                                         !.emptyAtCall = (connections = <<>>)],
                           connections)
    /\ UNCHANGED <<connections, ctxMatch>>
    /\ UNCHANGED restOfRouter

\* await Promise.resolve(this.fn(connection.ctx)) yields
FnSettle ==
    /\ route.pc = "awaitFn"
    /\ route' =
          IF ctxMatch[route.snapshot[route.idx]] = "yes"
              THEN [route EXCEPT !.pc = "done",
                                 !.result = route.snapshot[route.idx]]
              ELSE IF route.idx < Len(route.snapshot)
                       THEN [route EXCEPT !.idx = @ + 1]
                       ELSE [route EXCEPT !.pc = "waitAdd"]
    /\ UNCHANGED <<connections, ctxMatch>>
    /\ UNCHANGED restOfRouter

\* the continuation of await Event.toPromise(...): return await this.route(hub)
RouteResume ==
    /\ route.pc = "resumed"
    /\ route' = RouteEnter(route, connections)
    /\ UNCHANGED <<connections, ctxMatch>>
    /\ UNCHANGED restOfRouter

\* _connections.add(connection); _onDidAddConnection.fire(connection)
RouterAddConnection(c, m) ==
    /\ TaskMayRun
    /\ ctxMatch[c] = "none"
    /\ \A d \in Conns : d < c => ctxMatch[d] # "none"
    /\ connections' = Append(connections, c)
    /\ ctxMatch' = [ctxMatch EXCEPT ![c] = IF m THEN "yes" ELSE "no"]
    /\ route' = IF route.pc = "waitAdd"
                    THEN [route EXCEPT !.pc = "resumed"]
                    ELSE route
    /\ UNCHANGED restOfRouter

\* _connections.delete(connection)
RouterRemoveConnection(c) ==
    /\ TaskMayRun
    /\ \E j \in 1 .. Len(connections) : connections[j] = c
    /\ connections' = Remove(connections, c)
    /\ UNCHANGED <<ctxMatch, route>>
    /\ UNCHANGED restOfRouter

RouterInit ==
    /\ connections = <<>>
    /\ ctxMatch = [c \in Conns |-> "none"]
    /\ route = NoRoute

\* ----------------------------------------------------------- the codec
\* Text is a sequence of code points, a buffer a sequence of bytes.  A value
\* is a record: k is the kind serialize tells apart (typeof, Buffer.isBuffer,
\* instanceof VSBuffer, Array.isArray, anything else), s the text or the
\* bytes, els the elements of an array, j the value JSON.stringify renders.
DataTypeUndefined == 0
DataTypeString == 1
DataTypeBuffer == 2
DataTypeVSBuffer == 3
DataTypeArray == 4
DataTypeObject == 5

\* a JSON value: t is null, true, false, num, str, arr or obj
Json(t, n, str, els, keys) ==
    [t |-> t, n |-> n, s |-> str, els |-> els, keys |-> keys]
JNull == Json("null", 0, <<>>, <<>>, <<>>)
JTrue == Json("true", 0, <<>>, <<>>, <<>>)
JNum(n) == Json("num", n, <<>>, <<>>, <<>>)
JStr(str) == Json("str", 0, str, <<>>, <<>>)
JArr(els) == Json("arr", 0, <<>>, els, <<>>)
JObj(keys, els) == Json("obj", 0, <<>>, els, keys)

Value(k, str, els, j) == [k |-> k, s |-> str, els |-> els, j |-> j]
Undefined == Value("undefined", <<>>, <<>>, JNull)
StringValue(str) == Value("string", str, <<>>, JNull)
BufferValue(b) == Value("Buffer", b, <<>>, JNull)
VSBufferValue(b) == Value("VSBuffer", b, <<>>, JNull)
ArrayValue(els) == Value("Array", <<>>, els, JNull)
ObjectValue(j) == Value("Object", <<>>, <<>>, j)

RECURSIVE Concat(_)
\* VSBuffer.concat
Concat(ss) == IF ss = <<>> THEN <<>> ELSE Head(ss) \o Concat(Tail(ss))

RECURSIVE JoinComma(_)
JoinComma(ss) ==
    IF ss = <<>> THEN <<>>
    ELSE IF Len(ss) = 1 THEN ss[1]
    ELSE ss[1] \o <<44>> \o JoinComma(Tail(ss))

RECURSIVE Digits(_)
Digits(n) ==
    IF n < 10 THEN <<48 + n>> ELSE Digits(n \div 10) \o <<48 + (n % 10)>>

RECURSIVE JSONStringify(_)
\* JSON.stringify for null, true, naturals, strings without escapes, arrays
\* and objects
JSONStringify(j) ==
    CASE j.t = "null" -> <<110, 117, 108, 108>>
      [] j.t = "true" -> <<116, 114, 117, 101>>
      [] j.t = "false" -> <<102, 97, 108, 115, 101>>
      [] j.t = "num" -> Digits(j.n)
      [] j.t = "str" -> <<34>> \o j.s \o <<34>>
      [] j.t = "arr" ->
            <<91>> \o JoinComma([i \in 1 .. Len(j.els) |->
                                    JSONStringify(j.els[i])]) \o <<93>>
      [] OTHER ->
            <<123>> \o JoinComma([i \in 1 .. Len(j.els) |->
                                     <<34>> \o j.keys[i] \o <<34, 58>>
                                         \o JSONStringify(j.els[i])]) \o <<125>>

\* the result of a parsing step: the value and the position after it
ParseFail == [ok |-> FALSE, v |-> JNull, pos |-> 0]
ParseOk(v, p) == [ok |-> TRUE, v |-> v, pos |-> p]

HasAt(t, p, w) ==
    p + Len(w) - 1 <= Len(t) /\ SubSeq(t, p, p + Len(w) - 1) = w

RECURSIVE DigitsEnd(_, _)
DigitsEnd(t, p) ==
    IF p <= Len(t) /\ t[p] \in 48 .. 57 THEN DigitsEnd(t, p + 1) ELSE p

RECURSIVE QuoteAt(_, _)
QuoteAt(t, p) ==
    IF p > Len(t) THEN 0 ELSE IF t[p] = 34 THEN p ELSE QuoteAt(t, p + 1)

RECURSIVE ToNumber(_)
ToNumber(ds) ==
    IF ds = <<>> THEN 0
    ELSE 10 * ToNumber(SubSeq(ds, 1, Len(ds) - 1)) + (ds[Len(ds)] - 48)

RECURSIVE ParseValue(_, _)
RECURSIVE ParseElements(_, _, _)
RECURSIVE ParseMembers(_, _, _, _)
ParseValue(t, p) ==
    IF p > Len(t) THEN ParseFail
    ELSE CASE t[p] = 110 ->
                 IF HasAt(t, p, <<110, 117, 108, 108>>)
                     THEN ParseOk(JNull, p + 4) ELSE ParseFail
           [] t[p] = 116 ->
                 IF HasAt(t, p, <<116, 114, 117, 101>>)
                     THEN ParseOk(JTrue, p + 4) ELSE ParseFail
           [] t[p] = 102 ->
                 IF HasAt(t, p, <<102, 97, 108, 115, 101>>)
                     THEN ParseOk(Json("false", 0, <<>>, <<>>, <<>>), p + 5)
                     ELSE ParseFail
           [] t[p] \in 48 .. 57 ->
                 LET e == DigitsEnd(t, p)
                 IN  ParseOk(JNum(ToNumber(SubSeq(t, p, e - 1))), e)
           [] t[p] = 34 ->
                 LET q == QuoteAt(t, p + 1)
                 IN  IF q = 0 THEN ParseFail
                     ELSE ParseOk(JStr(SubSeq(t, p + 1, q - 1)), q + 1)
           [] t[p] = 91 ->
                 IF HasAt(t, p + 1, <<93>>)
                     THEN ParseOk(JArr(<<>>), p + 2)
                     ELSE ParseElements(t, p + 1, <<>>)
           [] t[p] = 123 ->
                 IF HasAt(t, p + 1, <<125>>)
                     THEN ParseOk(JObj(<<>>, <<>>), p + 2)
                     ELSE ParseMembers(t, p + 1, <<>>, <<>>)
           [] OTHER -> ParseFail

ParseElements(t, p, acc) ==
    The({IF ~r.ok THEN ParseFail
         ELSE IF HasAt(t, r.pos, <<44>>)
                  THEN ParseElements(t, r.pos + 1, Append(acc, r.v))
         ELSE IF HasAt(t, r.pos, <<93>>)
                  THEN ParseOk(JArr(Append(acc, r.v)), r.pos + 1)
         ELSE ParseFail : r \in {ParseValue(t, p)}})

ParseMembers(t, p, keys, els) ==
    The({The({IF ~r.ok THEN ParseFail
              ELSE IF HasAt(t, r.pos, <<44>>)
                       THEN ParseMembers(t, r.pos + 1,
                                Append(keys, SubSeq(t, p + 1, q - 1)),
                                Append(els, r.v))
              ELSE IF HasAt(t, r.pos, <<125>>)
                       THEN ParseOk(JObj(Append(keys, SubSeq(t, p + 1, q - 1)),
                                         Append(els, r.v)), r.pos + 1)
              ELSE ParseFail :
                 r \in {IF q # 0 /\ HasAt(t, q + 1, <<58>>)
                            THEN ParseValue(t, q + 2) ELSE ParseFail}}) :
            q \in {IF HasAt(t, p, <<34>>) THEN QuoteAt(t, p + 1) ELSE 0}})

\* JSON.parse: the whole text is one value, or a SyntaxError
JSONParse(t) ==
    The({IF r.ok /\ r.pos = Len(t) + 1 THEN r ELSE ParseFail :
            r \in {ParseValue(t, 1)}})

\* VSBuffer.fromString: the UTF-8 bytes of a text (code points below 2048)
Utf8Char(c) ==
    IF c < 128 THEN <<c>> ELSE <<192 + (c \div 64), 128 + (c % 64)>>

fromString(t) == Concat([i \in 1 .. Len(t) |-> Utf8Char(t[i])])

RECURSIVE toString(_)
\* VSBuffer.toString: an ill-formed byte decodes to U+FFFD
toString(b) ==
    IF b = <<>> THEN <<>>
    ELSE IF b[1] < 128 THEN <<b[1]>> \o toString(Tail(b))
    ELSE IF /\ b[1] >= 192 /\ b[1] < 224 /\ Len(b) >= 2
            /\ b[2] >= 128 /\ b[2] < 192
        THEN <<(b[1] - 192) * 64 + (b[2] - 128)>> \o toString(Tail(Tail(b)))
    ELSE <<65533>> \o toString(Tail(b))

\* createSizeBuffer: writeUInt32BE
createSizeBuffer(n) ==
    <<(n \div 16777216) % 256, (n \div 65536) % 256, (n \div 256) % 256,
      n % 256>>

\* (mutant) the size written is the length of the string, not of its bytes
TextSizeInChars(t) == Len(t)

\* buffer.byteLength of VSBuffer.fromString(data)
TextSize(t) == Len(fromString(t))

RECURSIVE serialize(_)
serialize(data) ==
    CASE data.k = "undefined" -> <<DataTypeUndefined>>
      [] data.k = "string" ->
            <<DataTypeString>> \o createSizeBuffer(TextSize(data.s))
                \o fromString(data.s)
      [] data.k = "Buffer" ->
            <<DataTypeBuffer>> \o createSizeBuffer(Len(data.s)) \o data.s
      [] data.k = "VSBuffer" ->
            <<DataTypeVSBuffer>> \o createSizeBuffer(Len(data.s)) \o data.s
      [] data.k = "Array" ->
            <<DataTypeArray>> \o createSizeBuffer(Len(data.els))
                \o Concat([i \in 1 .. Len(data.els) |-> serialize(data.els[i])])
      [] OTHER ->
            LET buffer == fromString(JSONStringify(data.j))
            IN  <<DataTypeObject>> \o createSizeBuffer(Len(buffer)) \o buffer

\* BufferReader.read at position pos (1-based): at most what is left
Read(buf, pos, n) ==
    LET end == Min(pos + n - 1, Len(buf))
    IN  [bytes |-> SubSeq(buf, pos, end),
         pos |-> IF end >= pos THEN end + 1 ELSE pos]

\* readSizeBuffer: readUInt32BE of the next four bytes; with fewer bytes the
\* sum is NaN, which reads no byte and counts no element
readSizeBuffer(buf, pos) ==
    The({[n |-> IF Len(r.bytes) = 4
                    THEN r.bytes[1] * 16777216 + r.bytes[2] * 65536
                         + r.bytes[3] * 256 + r.bytes[4]
                    ELSE 0,
          pos |-> r.pos] : r \in {Read(buf, pos, 4)}})

Decoded(v, pos, threw) == [v |-> v, pos |-> pos, threw |-> threw]

RECURSIVE deserialize(_, _)
RECURSIVE DeserializeElements(_, _, _, _)
\* the value read at pos, the position after it, and whether JSON.parse
\* threw; a type no case of the switch matches falls out of it: undefined
deserialize(buf, pos) ==
    LET type == IF pos > Len(buf) THEN -1 ELSE buf[pos]
        next == IF pos > Len(buf) THEN pos ELSE pos + 1
    IN  IF type \notin {DataTypeString, DataTypeBuffer, DataTypeVSBuffer,
                        DataTypeArray, DataTypeObject}
            THEN Decoded(Undefined, next, FALSE)
        ELSE The({
            IF type = DataTypeArray
                THEN DeserializeElements(buf, size.pos, size.n, <<>>)
            ELSE The({
                CASE type = DataTypeString ->
                        Decoded(StringValue(toString(data.bytes)), data.pos,
                                FALSE)
                  [] type = DataTypeBuffer ->
                        Decoded(BufferValue(data.bytes), data.pos, FALSE)
                  [] type = DataTypeVSBuffer ->
                        Decoded(VSBufferValue(data.bytes), data.pos, FALSE)
                  [] OTHER ->
                        The({IF r.ok
                                 THEN Decoded(ObjectValue(r.v), data.pos, FALSE)
                                 ELSE Decoded(Undefined, data.pos, TRUE) :
                                r \in {JSONParse(toString(data.bytes))}}) :
                data \in {Read(buf, size.pos, size.n)}}) :
            size \in {readSizeBuffer(buf, next)}})

DeserializeElements(buf, pos, n, acc) ==
    IF n = 0 THEN Decoded(ArrayValue(acc), pos, FALSE)
    ELSE The({IF r.threw THEN r
              ELSE DeserializeElements(buf, r.pos, n - 1, Append(acc, r.v)) :
                 r \in {deserialize(buf, pos)}})

\* send(header, body): both serialized into one buffer
send(header, body) == serialize(header) \o serialize(body)

\* header[0] of the decoded header: an element of an array, a byte of a Buffer
HeaderType(h) ==
    IF h.k = "Array" /\ h.els # <<>> /\ h.els[1].k = "Object"
          /\ h.els[1].j.t = "num"
        THEN h.els[1].j.n
    ELSE IF h.k = "Buffer" /\ h.s # <<>> THEN h.s[1]
    ELSE 0

\* the first lines of onRawMessage and onBuffer: both values are read, then
\* header[0] is taken (a TypeError when the header is undefined)
ReadMessage(buf) ==
    The({The({[header |-> h.v, body |-> b.v,
               threw |-> h.threw \/ b.threw \/ h.v.k = "undefined",
               type |-> HeaderType(h.v)] :
                 b \in {IF h.threw THEN h ELSE deserialize(buf, h.pos)}}) :
            h \in {deserialize(buf, 1)}})

\* ChannelServer.onRawMessage: the request type it dispatches, or 0
onRawMessage(buf) ==
    LET m == ReadMessage(buf)
    IN  [m EXCEPT !.type =
            IF ~m.threw /\ @ \in {Promise, EventListen, PromiseCancel,
                                  EventDispose}
                THEN @ ELSE 0]

\* ChannelClient.onBuffer: the response type it dispatches, or 0
onBuffer(buf) ==
    LET m == ReadMessage(buf)
    IN  [m EXCEPT !.type =
            IF ~m.threw /\ @ \in {Initialize, PromiseSuccess, PromiseError,
                                  PromiseErrorObj, EventFire}
                THEN @ ELSE 0]

\* the values the codec is run on
Chars == {97, 233}
ByteSamples == {4, 255}
UnknownTags == {6, 255}

SeqsUpTo(S, n) == UNION {[1 .. m -> S] : m \in 0 .. n}

JsonAtoms == {JNull, JTrue, JNum(100), JStr(<<233>>)}

JsonValues ==
    JsonAtoms \cup {JArr(e) : e \in SeqsUpTo(JsonAtoms, MaxLen)}
              \cup {JObj(<< <<97>> >>, <<a>>) : a \in JsonAtoms}

Scalars ==
    {Undefined} \cup {StringValue(t) : t \in SeqsUpTo(Chars, MaxLen)}
                \cup {BufferValue(b) : b \in SeqsUpTo(ByteSamples, MaxLen)}
                \cup {VSBufferValue(b) : b \in SeqsUpTo(ByteSamples, MaxLen)}
                \cup {ObjectValue(j) : j \in JsonValues}

Elements ==
    {Undefined, StringValue(<<233>>), BufferValue(<<4>>),
     VSBufferValue(<<255>>), ObjectValue(JNum(100)),
     ArrayValue(<<StringValue(<<97>>)>>)}

CodecValues ==
    Scalars \cup {ArrayValue(e) : e \in SeqsUpTo(Elements, MaxLen)}

\* [type, id, channelName, name] of sendRequest
RequestHeader(type, id) ==
    ArrayValue(<<ObjectValue(JNum(type)), ObjectValue(JNum(id)),
                 StringValue(<<97>>), StringValue(<<233>>)>>)

\* [type, id] of sendRequest and sendResponse
ShortHeader(type, id) ==
    ArrayValue(<<ObjectValue(JNum(type)), ObjectValue(JNum(id))>>)

NothingRead == [header |-> Undefined, body |-> Undefined, threw |-> FALSE,
                type |-> 0]

Message(side, header, body) ==
    [phase |-> "input", side |-> side, header |-> header, body |-> body,
     wire |-> <<>>, damaged |-> FALSE, got |-> NothingRead]

\* the frames the two ends write
Messages ==
    {Message("server", RequestHeader(t, id), b) :
        t \in {Promise, EventListen}, id \in Ids, b \in CodecValues}
    \cup {Message("server", ShortHeader(t, id), Undefined) :
        t \in {PromiseCancel, EventDispose}, id \in Ids}
    \cup {Message("client", ShortHeader(t, id), b) :
        t \in {PromiseSuccess, PromiseError, PromiseErrorObj, EventFire},
        id \in Ids, b \in CodecValues}
    \cup {Message("client", ArrayValue(<<ObjectValue(JNum(Initialize))>>),
                  Undefined)}

\* send: the frame is written to the transport
CodecSend ==
    /\ codec.phase = "input"
    /\ codec' = [codec EXCEPT !.phase = "sent",
                              !.wire = send(codec.header, codec.body)]
    /\ UNCHANGED restOfCodec

\* the frame that arrives has the tag of its header or of its body replaced
\* by a tag no DataType has
CodecDamage(body, tag) ==
    /\ codec.phase = "sent"
    /\ ~codec.damaged
    /\ LET at == IF body THEN Len(serialize(codec.header)) + 1 ELSE 1
       IN  codec' = [codec EXCEPT !.damaged = TRUE, !.wire[at] = tag]
    /\ UNCHANGED restOfCodec

\* protocol.onMessage: onRawMessage of the server, onBuffer of the client
CodecReceive ==
    /\ codec.phase = "sent"
    /\ codec' = [codec EXCEPT
                    !.phase = "received",
                    !.got = IF codec.side = "server"
                                THEN onRawMessage(codec.wire)
                                ELSE onBuffer(codec.wire)]
    /\ UNCHANGED restOfCodec

\* no frame is in the codec
CodecInit == codec = [Message("none", Undefined, Undefined)
                         EXCEPT !.phase = "idle"]

\* ------------------------------------------------- cancellation.ts
\* One MutableToken.  regs[r] is the r-th call token.onCancellationRequested(
\* listener): at is where the listener waits ("emitter": in the token's
\* emitter, "timer": in the setTimeout of shortcutEvent), calls counts its
\* invocations, late says it was registered after cancellation, unregistered
\* that the disposable of the registration was disposed while it waited,
\* cleared that MutableToken.dispose() dropped it.
Listeners == 1 .. MaxListeners

NoRegistration ==
    [at |-> "none", calls |-> 0, late |-> FALSE, unregistered |-> FALSE,
     cleared |-> FALSE]

\* (mutant) the callback is called by the registration itself
ShortcutEventSync(reg) ==
    [reg EXCEPT !.at = "gone", !.calls = @ + 1, !.late = TRUE]

\* shortcutEvent: setTimeout(callback.bind(context), 0)
ShortcutEvent(reg) == [reg EXCEPT !.at = "timer", !.late = TRUE]

\* Emitter.fire followed by Emitter.dispose: every listener is invoked once
\* and the list is cleared
FireAndDispose(regs) ==
    [r \in DOMAIN regs |->
        IF regs[r].at = "emitter"
            THEN [regs[r] EXCEPT !.at = "gone", !.calls = @ + 1]
            ELSE regs[r]]

\* token.onCancellationRequested(listener)
TokenRegister(r) ==
    /\ token.regs[r].at = "none"
    /\ token' =
          IF token.isCancelled
              THEN [token EXCEPT !.regs[r] = ShortcutEvent(@)]
              ELSE [token EXCEPT !.emitter = "live", !.regs[r].at = "emitter"]
    /\ UNCHANGED <<store, listenCall, ipcServer, filterCall, handshake,
                   portClosed, flushRun>>
    /\ UNCHANGED restOfLib

\* MutableToken.cancel()
MutableTokenCancel ==
    /\ token.cancels < MaxCancels
    /\ token' =
          IF token.isCancelled
              THEN [token EXCEPT !.cancels = @ + 1]
          ELSE IF token.emitter = "live"
              THEN [token EXCEPT !.cancels = @ + 1, !.isCancelled = TRUE,
                                 !.emitter = "null",
                                 !.regs = FireAndDispose(@)]
          ELSE [token EXCEPT !.cancels = @ + 1, !.isCancelled = TRUE]
    /\ UNCHANGED <<store, listenCall, ipcServer, filterCall, handshake,
                   portClosed, flushRun>>
    /\ UNCHANGED restOfLib

\* MutableToken.dispose(), as CancellationTokenSource.dispose() calls it
MutableTokenDispose ==
    /\ token.emitter = "live"
    /\ token' = [token EXCEPT
                    !.emitter = "null",
                    !.regs = [r \in Listeners |->
                                 IF token.regs[r].at = "emitter"
                                     THEN [token.regs[r] EXCEPT !.at = "gone",
                                                               !.cleared = TRUE]
                                     ELSE token.regs[r]]]
    /\ UNCHANGED <<store, listenCall, ipcServer, filterCall, handshake,
                   portClosed, flushRun>>
    /\ UNCHANGED restOfLib

\* the timer of shortcutEvent fires
ShortcutTimer(r) ==
    /\ token.regs[r].at = "timer"
    /\ token' = [token EXCEPT !.regs[r].at = "gone", !.regs[r].calls = @ + 1]
    /\ UNCHANGED <<store, listenCall, ipcServer, filterCall, handshake,
                   portClosed, flushRun>>
    /\ UNCHANGED restOfLib

\* the disposable a registration returned is disposed: removeListener of the
\* emitter, or clearTimeout(handle) of shortcutEvent
RegistrationDispose(r) ==
    /\ token.regs[r].at \in {"emitter", "timer"}
    /\ token' = [token EXCEPT !.regs[r].at = "gone",
                              !.regs[r].unregistered = TRUE]
    /\ UNCHANGED <<store, listenCall, ipcServer, filterCall, handshake,
                   portClosed, flushRun>>
    /\ UNCHANGED restOfLib

TokenInit ==
    token = [isCancelled |-> FALSE, emitter |-> "null", cancels |-> 0,
             regs |-> [r \in Listeners |-> NoRegistration]]

\* ---------------------------------------------------- lifecycle.ts
\* One DisposableStore.  st[d].offered: d was passed to add();
\* st[d].disposals: how often d.dispose() has run.
Disposables == 1 .. MaxDisposables

RECURSIVE DisposeEach(_, _)
\* dispose(iterable): d.dispose() for each element
DisposeEach(st, ds) ==
    IF ds = {} THEN st
    ELSE LET d == CHOOSE x \in ds : \A y \in ds : x <= y
         IN  DisposeEach([st EXCEPT ![d].disposals = Min(@ + 1, 2)], ds \ {d})

\* DisposableStore.clear()
StoreCleared(s) ==
    IF s.toDispose = {} THEN s
    ELSE [s EXCEPT !.st = DisposeEach(@, s.toDispose), !.toDispose = {}]

\* DisposableStore.add(o)
StoreAdd(d) ==
    /\ ~store.st[d].offered
    /\ store' = IF store.isDisposed
                    THEN [store EXCEPT !.st[d].offered = TRUE]
                    ELSE [store EXCEPT !.st[d].offered = TRUE,
                                       !.toDispose = @ \cup {d}]
    /\ UNCHANGED <<token, listenCall, ipcServer, filterCall, handshake,
                   portClosed, flushRun>>
    /\ UNCHANGED restOfLib

\* DisposableStore.clear()
StoreClear ==
    /\ store.toDispose # {}
    /\ store' = StoreCleared(store)
    /\ UNCHANGED <<token, listenCall, ipcServer, filterCall, handshake,
                   portClosed, flushRun>>
    /\ UNCHANGED restOfLib

\* DisposableStore.dispose()
StoreDispose ==
    /\ ~store.isDisposed
    /\ store' = StoreCleared([store EXCEPT !.isDisposed = TRUE])
    /\ UNCHANGED <<token, listenCall, ipcServer, filterCall, handshake,
                   portClosed, flushRun>>
    /\ UNCHANGED restOfLib

\* the owner of a disposable disposes it itself
DisposableDispose(d) ==
    /\ store.st[d].disposals = 0
    /\ store' = [store EXCEPT !.st[d].disposals = 1]
    /\ UNCHANGED <<token, listenCall, ipcServer, filterCall, handshake,
                   portClosed, flushRun>>
    /\ UNCHANGED restOfLib

StoreInit ==
    store = [isDisposed |-> FALSE, toDispose |-> {},
             st |-> [d \in Disposables |-> [offered |-> FALSE, disposals |-> 0]]]

\* ------------------------------ ProxyChannel.fromService, onEventListen
\* A property name is the sequence of its character codes.
OnA == <<111, 110, 65>>
Ona == <<111, 110, 97>>
OnDynamicX == <<111, 110, 68, 121, 110, 97, 109, 105, 99, 88>>
OnDynamicx == <<111, 110, 68, 121, 110, 97, 109, 105, 99, 120>>
PropertyNames == {OnA, Ona, OnDynamicX, OnDynamicx}

\* strings.isUpperAsciiLetter(name.charCodeAt(k)), k counted from 0
IsUpperAt(name, k) ==
    /\ k + 1 <= Len(name)
    /\ name[k + 1] >= 65
    /\ name[k + 1] <= 90

propertyIsEvent(name) ==
    /\ Len(name) >= 2
    /\ name[1] = 111
    /\ name[2] = 110
    /\ IsUpperAt(name, 2)

propertyIsDynamicEvent(name) ==
    /\ Len(name) >= 9
    /\ SubSeq(name, 1, 9) = <<111, 110, 68, 121, 110, 97, 109, 105, 99>>
    /\ IsUpperAt(name, 9)

\* What a service holds under a name: nothing, an Event or a function as an
\* enumerable property, or a function the for-in loop does not see (a method
\* of the service's class).
PropertyKinds == {"absent", "event", "function", "method"}
Services == [PropertyNames -> PropertyKinds]

\* the keys of mapEventNameToEvent
mapEventNameToEvent(service) ==
    {key \in PropertyNames :
        service[key] \in {"event", "function"} /\ propertyIsEvent(key)}

\* listen(_, event, arg) of the channel fromService returns: "event" when it
\* returns an Event, "throw" for `throw new Error('Event not found: ...')`
ServiceListen(service, event) ==
    IF event \in mapEventNameToEvent(service) THEN "event"
    ELSE IF propertyIsDynamicEvent(event)
            /\ service[event] \in {"function", "method"} THEN "event"
    ELSE "throw"

ListenCallOf(pc, id, service, event) ==
    [pc |-> pc, id |-> id, service |-> service, event |-> event,
     listening |-> FALSE, row |-> FALSE, uncaught |-> FALSE, fires |-> 0,
     sent |-> <<>>]

ListenCalls ==
    {ListenCallOf("entry", id, sv, e) :
        id \in Ids, sv \in Services, e \in PropertyNames}

\* onEventListen for a registered channel: channel.listen, event(listener),
\* activeRequests.set; an exception of listen leaves the method at once
OnEventListenCall ==
    /\ listenCall.pc = "entry"
    /\ listenCall' =
          IF ServiceListen(listenCall.service, listenCall.event) = "throw"
              THEN [listenCall EXCEPT !.pc = "returned", !.uncaught = TRUE]
              ELSE [listenCall EXCEPT !.pc = "returned", !.listening = TRUE,
                                      !.row = TRUE]
    /\ UNCHANGED <<token, store, ipcServer, filterCall, handshake,
                   portClosed, flushRun>>
    /\ UNCHANGED restOfLib

\* the event listen returned fires: the listener of onEventListen sends
OnEventListenFire ==
    /\ listenCall.pc = "returned"
    /\ listenCall.listening
    /\ listenCall.fires < MaxFires
    /\ listenCall' = [listenCall EXCEPT
                        !.fires = @ + 1,
                        !.sent = Append(@, ResponseFrame(EventFire,
                                             listenCall.id, "", "v"))]
    /\ UNCHANGED <<token, store, ipcServer, filterCall, handshake,
                   portClosed, flushRun>>
    /\ UNCHANGED restOfLib

\* no invocation is under way
ListenCallInit ==
    listenCall = ListenCallOf("idle", NoId, [n \in PropertyNames |-> "absent"],
                              OnA)

\* ------------------------------------------ IPCServer: the constructor
\* phase of a transport: "none" before onDidClientConnect, "connected" while
\* the listener of Event.once(protocol.onMessage) waits for the context
\* frame, "added" and "removed" thereafter.  closed: the transport's
\* disconnect signal has fired.  halves: the ChannelServer and ChannelClient
\* of the connection.  events: the fires of onDidAddConnection and
\* onDidRemoveConnection in their order.
Clients == 1 .. MaxClients

NoTransport == [phase |-> "none", closed |-> FALSE, halves |-> "none"]

\* (mutant) the disconnect listener also acts for a transport whose context
\* frame never came
OnDisconnectAlways(s, c) ==
    [s EXCEPT !.tr[c].closed = TRUE, !.tr[c].phase = "removed",
              !.connections = @ \ {c},
              !.events = Append(@, <<"remove", c>>)]

\* the listener on onDidClientDisconnect, which exists once the context frame
\* has been received
OnDisconnect(s, c) ==
    IF s.tr[c].phase = "added"
        THEN [s EXCEPT !.tr[c].closed = TRUE, !.tr[c].phase = "removed",
                       !.tr[c].halves = "disposed",
                       !.connections = @ \ {c},
                       !.events = Append(@, <<"remove", c>>)]
        ELSE [s EXCEPT !.tr[c].closed = TRUE]

\* onDidClientConnect fires for a new transport
TransportConnect(c) ==
    /\ ipcServer.tr[c].phase = "none"
    /\ \A d \in Clients : d < c => ipcServer.tr[d].phase # "none"
    /\ ipcServer' = [ipcServer EXCEPT !.tr[c].phase = "connected"]
    /\ UNCHANGED <<token, store, listenCall, filterCall, handshake,
                   portClosed, flushRun>>
    /\ UNCHANGED restOfLib

\* the first message of a transport: the listener of onFirstMessage
TransportFirstMessage(c) ==
    /\ ipcServer.tr[c].phase = "connected"
    /\ ~ipcServer.tr[c].closed
    /\ ipcServer' = [ipcServer EXCEPT
                        !.tr[c].phase = "added", !.tr[c].halves = "live",
                        !.connections = @ \cup {c},
                        !.events = Append(@, <<"add", c>>)]
    /\ UNCHANGED <<token, store, listenCall, filterCall, handshake,
                   portClosed, flushRun>>
    /\ UNCHANGED restOfLib

\* the disconnect signal of a transport fires
TransportDisconnect(c) ==
    /\ ipcServer.tr[c].phase # "none"
    /\ ~ipcServer.tr[c].closed
    /\ ipcServer' = OnDisconnect(ipcServer, c)
    /\ UNCHANGED <<token, store, listenCall, filterCall, handshake,
                   portClosed, flushRun>>
    /\ UNCHANGED restOfLib

IPCServerInit ==
    ipcServer = [tr |-> [c \in Clients |-> NoTransport], connections |-> {},
                 events |-> <<>>]

\* ------------------------------- IPCServer.getChannel(name, clientFilter)
\* conns: the hub's _connections; match[c]: what clientFilter returns for
\* connection c ("none": c does not exist yet).  pc of the call: "waiting"
\* while the promise of Event.toPromise is pending, "resolved" when
\* connectionPromise is resolved with conn, "gotChannel" after the first then
\* (channelClient.getChannel), "called" after the then of getDelayedChannel
\* (c.call).  The two continuations are microtasks.
FilterMicrotaskPending == filterCall.pc \in {"resolved", "gotChannel"}

\* (mutant) the filter is not applied to the connections
AllConnections(fc) == fc.conns

\* that.connections.filter(routerOrClientFilter)
MatchingConnections(fc) == {c \in fc.conns : fc.match[c] = "yes"}

\* call(command, arg) up to its return; getRandomElement picks any member
FilterCall ==
    /\ filterCall.pc = "none"
    /\ IF MatchingConnections(filterCall) # {}
          THEN \E c \in MatchingConnections(filterCall) :
                  filterCall' = [filterCall EXCEPT !.pc = "resolved",
                                                   !.conn = c]
          ELSE filterCall' = [filterCall EXCEPT !.pc = "waiting"]
    /\ UNCHANGED <<token, store, listenCall, ipcServer, handshake,
                   portClosed, flushRun>>
    /\ UNCHANGED restOfLib

\* _connections.add and _onDidAddConnection.fire: the listener of
\* Event.once(Event.filter(onDidAddConnection, clientFilter)) resolves
FilterAddConnection(c, m) ==
    /\ ~FilterMicrotaskPending
    /\ filterCall.match[c] = "none"
    /\ \A d \in Clients : d < c => filterCall.match[d] # "none"
    /\ filterCall' =
          LET fc == [filterCall EXCEPT
                        !.conns = @ \cup {c},
                        !.match[c] = IF m THEN "yes" ELSE "no"]
          IN  IF filterCall.pc = "waiting" /\ m
                  THEN [fc EXCEPT !.pc = "resolved", !.conn = c,
                                  !.waited = TRUE]
                  ELSE fc
    /\ UNCHANGED <<token, store, listenCall, ipcServer, handshake,
                   portClosed, flushRun>>
    /\ UNCHANGED restOfLib

\* _connections.delete(connection)
FilterRemoveConnection(c) ==
    /\ ~FilterMicrotaskPending
    /\ c \in filterCall.conns
    /\ filterCall' = [filterCall EXCEPT !.conns = @ \ {c}]
    /\ UNCHANGED <<token, store, listenCall, ipcServer, handshake,
                   portClosed, flushRun>>
    /\ UNCHANGED restOfLib

\* connectionPromise.then(connection => connection.channelClient.getChannel)
FilterGetChannel ==
    /\ filterCall.pc = "resolved"
    /\ filterCall' = [filterCall EXCEPT !.pc = "gotChannel"]
    /\ UNCHANGED <<token, store, listenCall, ipcServer, handshake,
                   portClosed, flushRun>>
    /\ UNCHANGED restOfLib

\* getDelayedChannel: promise.then(c => c.call(command, arg, token))
FilterDelayedCall ==
    /\ filterCall.pc = "gotChannel"
    /\ filterCall' = [filterCall EXCEPT !.pc = "called",
                                        !.sentOn = filterCall.conn]
    /\ UNCHANGED <<token, store, listenCall, ipcServer, handshake,
                   portClosed, flushRun>>
    /\ UNCHANGED restOfLib

FilterCallInit ==
    filterCall = [pc |-> "none", conn |-> 0, sentOn |-> 0, waited |-> FALSE,
                  conns |-> {}, match |-> [c \in Clients |-> "none"]]

\* ------------------------------------ IPCClient and the hub's first frame
\* sent: every frame the IPCClient has written, in order; read: how many of
\* them the hub's end has delivered.  hub.phase is "first" while only the
\* listener of Event.once(protocol.onMessage) exists, "serving" once the
\* ChannelServer and ChannelClient of the connection listen.
Contexts ==
    {Undefined, StringValue(<<97>>), StringValue(<<97, 233>>),
     ObjectValue(JNum(100)), ObjectValue(JObj(<< <<97>> >>, <<JTrue>>)),
     ArrayValue(<<StringValue(<<97>>)>>)}

\* sendResponse({ type: ResponseType.Initialize }): send([type])
InitializeFrame == send(ArrayValue(<<ObjectValue(JNum(Initialize))>>), Undefined)

\* (mutant) the halves are created before the context is written
IPCClientFramesContextLast(ctx) == <<InitializeFrame, serialize(ctx)>>

\* the frames the constructor of IPCClient writes: serialize(writer, ctx),
\* then new ChannelClient (writes nothing), then new ChannelServer
IPCClientFrames(ctx) == <<serialize(ctx), InitializeFrame>>

\* new IPCClient(protocol, ctx)
IPCClientConstruct(ctx) ==
    /\ ~handshake.constructed
    /\ handshake' = [handshake EXCEPT !.constructed = TRUE, !.ctx = ctx,
                                      !.sent = IPCClientFrames(ctx)]
    /\ UNCHANGED <<token, store, listenCall, ipcServer, filterCall,
                   portClosed, flushRun>>
    /\ UNCHANGED restOfLib

\* a Call or a Subscribe of the constructed endpoint's client is written
IPCClientRequest(type) ==
    /\ handshake.constructed
    /\ handshake.requests < MaxReqs
    /\ handshake' = [handshake EXCEPT
                        !.requests = @ + 1,
                        !.sent = Append(@, send(RequestHeader(type,
                                                  handshake.requests),
                                                Undefined))]
    /\ UNCHANGED <<token, store, listenCall, ipcServer, filterCall,
                   portClosed, flushRun>>
    /\ UNCHANGED restOfLib

\* protocol.onMessage fires at the hub's end.  The first message goes to the
\* listener of onFirstMessage alone, which decodes the context and creates
\* the two halves; every later one goes to onRawMessage of the ChannelServer
\* (a request is dispatched with this.ctx) and to onBuffer of the
\* ChannelClient.
HubTransportMessage ==
    /\ handshake.read < Len(handshake.sent)
    /\ LET msg == handshake.sent[handshake.read + 1]
           hub == handshake.hub
       IN  handshake' =
             [handshake EXCEPT
                !.read = @ + 1,
                !.hub =
                   IF hub.phase = "first"
                       THEN [hub EXCEPT !.phase = "serving",
                                        !.ctx = deserialize(msg, 1).v]
                       ELSE [hub EXCEPT
                               !.dispatched =
                                  IF onRawMessage(msg).type
                                        \in {Promise, EventListen}
                                      THEN Append(@,
                                             [type |-> onRawMessage(msg).type,
                                              ctx |-> hub.ctx])
                                      ELSE @,
                               !.state =
                                  IF onBuffer(msg).type = Initialize
                                      THEN "Idle" ELSE @]]
    /\ UNCHANGED <<token, store, listenCall, ipcServer, filterCall,
                   portClosed, flushRun>>
    /\ UNCHANGED restOfLib

HandshakeInit ==
    handshake = [constructed |-> FALSE, ctx |-> Undefined, requests |-> 0,
                 sent |-> <<>>, read |-> 0,
                 hub |-> [phase |-> "first", ctx |-> Undefined,
                          state |-> "Uninitialized", dispatched |-> <<>>]]

\* ------------------------------- Client of ipc.mp.ts / ipc.electron.ts
\* Client.dispose() of both subclasses: `this.protocol.disconnect()`, which
\* closes the port; the override does not call IPCClient.dispose().
PortClientDispose ==
    /\ ~portClosed
    /\ portClosed' = TRUE
    /\ UNCHANGED <<token, store, listenCall, ipcServer, filterCall, handshake,
                   flushRun>>
    /\ UNCHANGED restOfLib

\* a message event of the open port reaches the endpoint's client half
PortClientReceive == ~portClosed /\ ClientReceive

\* a message posted to the open port reaches the peer
PortServerReceive == ~portClosed /\ ServerReceive

PortInit == portClosed = FALSE

\* ------------------------------ ChannelServer: flushPendingRequests
\* The rows collectPendingRequest has pushed for one channel, in their order.
\* listen: what channel.listen does for the event the row names (see
\* ServiceListen); timer: the row's timeoutTimer; dispatched: the row was
\* handed to onPromise or onEventListen of the registered channel.
\* inMap: pendingRequests has an entry for the channel; uncaught: an exception
\* left flushPendingRequests.
MaxRows == 3

FlushRow(type, listen) ==
    [type |-> type, listen |-> listen, timer |-> "armed", dispatched |-> FALSE]

NoFlushRun ==
    [rows |-> <<>>, registered |-> FALSE, flushDue |-> FALSE, inMap |-> FALSE,
     flushed |-> FALSE, uncaught |-> FALSE]

\* onPromise or onEventListen for a channel not yet registered:
\* collectPendingRequest pushes a row and arms its timer
FlushCollect(type, listen) ==
    /\ ~flushRun.registered
    /\ Len(flushRun.rows) < MaxRows
    /\ type = Promise => listen = "event"
    /\ flushRun' = [flushRun EXCEPT !.rows = Append(@, FlushRow(type, listen)),
                                    !.inMap = TRUE]
    /\ UNCHANGED <<token, store, listenCall, ipcServer, filterCall, handshake,
                   portClosed>>
    /\ UNCHANGED restOfLib

\* registerChannel: channels.set, setTimeout(flushPendingRequests, 0)
FlushRegister ==
    /\ ~flushRun.registered
    /\ flushRun' = [flushRun EXCEPT !.registered = TRUE, !.flushDue = TRUE]
    /\ UNCHANGED <<token, store, listenCall, ipcServer, filterCall, handshake,
                   portClosed>>
    /\ UNCHANGED restOfLib

\* the timeoutTimer of a row fires; the timer registerChannel set with delay
\* 0 is due before any timer that is not yet due
FlushRowTimeout(k) ==
    /\ ~flushRun.flushDue
    /\ k \in 1 .. Len(flushRun.rows)
    /\ flushRun.rows[k].timer = "armed"
    /\ flushRun' = [flushRun EXCEPT !.rows[k].timer = "fired"]
    /\ UNCHANGED <<token, store, listenCall, ipcServer, filterCall, handshake,
                   portClosed>>
    /\ UNCHANGED restOfLib

RECURSIVE FlushLoop(_, _)
\* the for-of loop of flushPendingRequests from row k on: clearTimeout, then
\* onPromise or onEventListen.  onPromise catches what channel.call throws;
\* onEventListen does not catch what channel.listen throws, and the
\* exception leaves the loop.
FlushLoop(rows, k) ==
    IF k > Len(rows) THEN [rows |-> rows, threw |-> FALSE]
    ELSE LET row == [rows[k] EXCEPT
                        !.timer = IF @ = "armed" THEN "cleared" ELSE @,
                        !.dispatched = TRUE]
             done == [rows EXCEPT ![k] = row]
         IN IF row.type = EventListen /\ row.listen = "throw"
                THEN [rows |-> done, threw |-> TRUE]
                ELSE FlushLoop(done, k + 1)

\* the timer of registerChannel fires: flushPendingRequests(channelName);
\* pendingRequests.delete(channelName) follows the loop
FlushRunTask ==
    /\ flushRun.flushDue
    /\ LET out == FlushLoop(flushRun.rows, 1)
       IN flushRun' = [flushRun EXCEPT
                          !.flushDue = FALSE,
                          !.flushed = TRUE,
                          !.rows = IF flushRun.inMap THEN out.rows ELSE @,
                          !.uncaught = flushRun.inMap /\ out.threw,
                          !.inMap = flushRun.inMap /\ out.threw]
    /\ UNCHANGED <<token, store, listenCall, ipcServer, filterCall, handshake,
                   portClosed>>
    /\ UNCHANGED restOfLib

FlushRunInit == flushRun = NoFlushRun

LibInit ==
    /\ FlushRunInit
    /\ PortInit
    /\ HandshakeInit
    /\ TokenInit
    /\ StoreInit
    /\ ListenCallInit
    /\ IPCServerInit
    /\ FilterCallInit

\* ------------------------------------------------------------ the system
\* both ends are constructed; the server has sent Initialize (constructor)
ConnInit ==
    /\ state = "Uninitialized"
    /\ isDisposed = FALSE
    /\ protocolListener = TRUE
    /\ lastRequestId = 0
    /\ handlers = [id \in Ids |-> 0]
    /\ activeRequests = <<>>
    /\ reqs = <<>>
    /\ initQueue = <<>>
    /\ finallyQueue = {}
    /\ c2s = <<>>
    /\ s2c = <<ResponseFrame(Initialize, NoId, "", "")>>
    /\ channels = {}
    /\ srvProtocolListener = TRUE
    /\ srvActiveRequests = [id \in Ids |-> "none"]
    /\ pendingRequests = [ch \in ChannelNames |-> <<>>]
    /\ flushTimers = <<>>
    /\ srv = [id \in Ids |-> NoServerRow]
    /\ fired = 0

Init ==
    /\ ConnInit
    /\ HubInit
    /\ RouterInit
    /\ CodecInit
    /\ OnPromiseInit
    /\ LibInit

\* The caller's synchronous code and the client's microtasks.
ClientStep ==
    \/ \E ch \in ChannelNames, c \in BOOLEAN :
          Call(ch, CommandOf(Len(reqs) + 1), ArgOf(Len(reqs) + 1), c)
    \/ \E ch \in ChannelNames :
          Listen(ch, CommandOf(Len(reqs) + 1), ArgOf(Len(reqs) + 1))
    \/ \E i \in 1 .. MaxReqs : AddListener(i)
    \/ \E i \in 1 .. MaxReqs : RemoveListener(i)
    \/ \E i \in 1 .. MaxReqs : TokenCancel(i)
    \/ RunQueued
    \/ \E i \in 1 .. MaxReqs : RunFinally(i)
    \/ ClientReceive
    \/ ClientDispose

\* The tasks of the peer's process: the server, its timers, its handlers.
ServerStep ==
    \/ ServerReceive
    \/ \E ch \in ChannelNames : RegisterChannel(ch)
    \/ FlushPendingRequests
    \/ \E ch \in ChannelNames, k \in 1 .. MaxReqs : PendingTimeout(ch, k)
    \/ Tick
    \/ \E id \in Ids, how \in {"ok", "err", "errobj"} : HandlerSettle(id, how)
    \/ \E id \in Ids : HandlerFire(id)

Next ==
    \/ ClientStep
    \/ ServerStep

Spec == Init /\ [][Next]_vars

\* The hub with one multicast event and the clients of its connections.
HubNext ==
    \/ \E c \in Conns, m \in BOOLEAN : HubClientConnect(c, m)
    \/ \E c \in Conns : HubInitialize(c)
    \/ \E c \in Conns : HubRunQueued(c)
    \/ \E c \in Conns : RemoteFire(c)
    \/ \E c \in Conns : HubClientReceive(c)
    \/ \E c \in Conns : HubClientDisconnect(c)
    \/ AddOutListener
    \/ RemoveOutListener

SpecHub == Init /\ [][HubNext]_vars

\* The hub's channels and the channels of its connections' servers.
HubChannelsNext ==
    \/ \E c \in Conns, m \in BOOLEAN : HubClientConnect(c, m)
    \/ \E c \in Conns : HubClientDisconnect(c)
    \/ \E n \in HubChannelNames, h \in HubHandlers : HubRegisterChannel(n, h)
    \/ \E c \in Conns : HubFlushPendingRequests(c)

SpecHubChannels == Init /\ [][HubChannelsNext]_vars

\* One route over the hub's connections; the router's own continuations run
\* whenever they are due, connections come and go as the clients please.
RouterNext ==
    \/ \E a \in BOOLEAN : RouteCall(a)
    \/ FnSettle
    \/ RouteResume
    \/ \E c \in Conns, m \in BOOLEAN : RouterAddConnection(c, m)
    \/ \E c \in Conns : RouterRemoveConnection(c)

RouterFairSpec ==
    /\ Init
    /\ [][RouterNext]_vars
    /\ WF_vars(FnSettle)
    /\ WF_vars(RouteResume)

\* A connection of the hub in use until its transport disconnects.
DisconnectNext ==
    \/ \E ch \in ChannelNames, c \in BOOLEAN :
          Call(ch, CommandOf(Len(reqs) + 1), ArgOf(Len(reqs) + 1), c)
    \/ \E ch \in ChannelNames :
          Listen(ch, CommandOf(Len(reqs) + 1), ArgOf(Len(reqs) + 1))
    \/ \E i \in 1 .. MaxReqs : AddListener(i)
    \/ \E i \in 1 .. MaxReqs : RemoveListener(i)
    \/ \E i \in 1 .. MaxReqs : TokenCancel(i)
    \/ RunQueued
    \/ \E i \in 1 .. MaxReqs : RunFinally(i)
    \/ ClientReceive
    \/ ServerStep
    \/ OnDidClientDisconnect

SpecDisconnect == Init /\ [][DisconnectNext]_vars

\* The calls of the client and the requests the server deferred for them,
\* without subscriptions and disposal, under the fairness of the event loop.
CallsNext ==
    \/ \E ch \in ChannelNames, c \in BOOLEAN :
          Call(ch, CommandOf(Len(reqs) + 1), ArgOf(Len(reqs) + 1), c)
    \/ \E i \in 1 .. MaxReqs : TokenCancel(i)
    \/ RunQueued
    \/ \E i \in 1 .. MaxReqs : RunFinally(i)
    \/ ClientReceive
    \/ ServerReceive
    \/ \E ch \in ChannelNames : RegisterChannel(ch)
    \/ FlushPendingRequests
    \/ \E ch \in ChannelNames, k \in 1 .. MaxReqs : PendingTimeout(ch, k)
    \/ Tick
    \/ \E id \in Ids, how \in {"ok", "err", "errobj"} : HandlerSettle(id, how)

\* Calls and subscriptions for channels that are registered at some time;
\* a timer that is due fires.
RegisterNext ==
    \/ CallsNext
    \/ \E ch \in ChannelNames :
          Listen(ch, CommandOf(Len(reqs) + 1), ArgOf(Len(reqs) + 1))
    \/ \E i \in 1 .. MaxReqs : AddListener(i)

RegisterFairSpec ==
    /\ Init
    /\ [][RegisterNext]_vars
    /\ WF_vars(FlushPendingRequests)

\* A client and a server whose owner disposes the server at some time.
ServerDisposeNext ==
    \/ CallsNext
    \/ \E ch \in ChannelNames :
          Listen(ch, CommandOf(Len(reqs) + 1), ArgOf(Len(reqs) + 1))
    \/ \E i \in 1 .. MaxReqs : AddListener(i)
    \/ ServerDispose

SpecServerDispose == Init /\ [][ServerDisposeNext]_vars

\* Every frame either end writes, read by the other end as it was written or
\* with an unknown tag.
InitCodec ==
    /\ ConnInit
    /\ HubInit
    /\ RouterInit
    /\ codec \in Messages
    /\ OnPromiseInit
    /\ LibInit

\* Every answer of a channel's call to one request, turned into a response.
InitOnPromise ==
    /\ ConnInit
    /\ HubInit
    /\ RouterInit
    /\ CodecInit
    /\ promiseCall \in PromiseCalls
    /\ LibInit

\* A cancellation token, its listeners and the event loop's timers.
TokenNext ==
    \/ \E r \in Listeners : TokenRegister(r)
    \/ MutableTokenCancel
    \/ MutableTokenDispose
    \/ \E r \in Listeners : ShortcutTimer(r)
    \/ \E r \in Listeners : RegistrationDispose(r)

SpecToken == Init /\ [][TokenNext]_vars

\* Every Subscribe a channel made by fromService can be asked for.
InitOnEventListen ==
    /\ ConnInit
    /\ HubInit
    /\ RouterInit
    /\ CodecInit
    /\ OnPromiseInit
    /\ TokenInit
    /\ StoreInit
    /\ IPCServerInit
    /\ FilterCallInit
    /\ HandshakeInit
    /\ PortInit
    /\ FlushRunInit
    /\ listenCall \in ListenCalls

OnEventListenNext ==
    \/ OnEventListenCall
    \/ OnEventListenFire

SpecOnEventListen == InitOnEventListen /\ [][OnEventListenNext]_vars

\* Transports connect to the hub, send their context and disconnect.
ConnectionsNext ==
    \/ \E c \in Clients : TransportConnect(c)
    \/ \E c \in Clients : TransportFirstMessage(c)
    \/ \E c \in Clients : TransportDisconnect(c)

SpecConnections == Init /\ [][ConnectionsNext]_vars

\* One call through a filtered hub channel while connections come and go;
\* the microtasks of the call run when they are due.
FilterNext ==
    \/ FilterCall
    \/ \E c \in Clients, m \in BOOLEAN : FilterAddConnection(c, m)
    \/ \E c \in Clients : FilterRemoveConnection(c)
    \/ FilterGetChannel
    \/ FilterDelayedCall

FilterFairSpec ==
    /\ Init
    /\ [][FilterNext]_vars
    /\ WF_vars(FilterGetChannel)
    /\ WF_vars(FilterDelayedCall)

\* An endpoint connects to the hub and makes requests; the transport
\* delivers its frames in order.
HandshakeNext ==
    \/ \E ctx \in Contexts : IPCClientConstruct(ctx)
    \/ \E type \in {Promise, EventListen} : IPCClientRequest(type)
    \/ HubTransportMessage

SpecHandshake == Init /\ [][HandshakeNext]_vars

\* An endpoint made as a Client over a port: calls, their cancellation, the
\* peer's answers, and the endpoint's dispose().
PortClientNext ==
    \/ \E ch \in ChannelNames, c \in BOOLEAN :
          Call(ch, CommandOf(Len(reqs) + 1), ArgOf(Len(reqs) + 1), c)
    \/ \E i \in 1 .. MaxReqs : TokenCancel(i)
    \/ RunQueued
    \/ \E i \in 1 .. MaxReqs : RunFinally(i)
    \/ PortClientReceive
    \/ PortServerReceive
    \/ \E ch \in ChannelNames : RegisterChannel(ch)
    \/ FlushPendingRequests
    \/ \E id \in Ids, how \in {"ok", "err", "errobj"} : HandlerSettle(id, how)
    \/ PortClientDispose

SpecPortClient == Init /\ [][PortClientNext]_vars

\* One channel of a ChannelServer: requests are deferred until it is
\* registered, their timers run, and the flush follows the registration.
FlushRunNext ==
    \/ \E type \in {Promise, EventListen}, listen \in {"event", "throw"} :
          FlushCollect(type, listen)
    \/ FlushRegister
    \/ \E k \in 1 .. MaxRows : FlushRowTimeout(k)
    \/ FlushRunTask

SpecFlushRun == Init /\ [][FlushRunNext]_vars

\* A DisposableStore and the disposables of its user.
StoreNext ==
    \/ \E d \in Disposables : StoreAdd(d)
    \/ StoreClear
    \/ StoreDispose
    \/ \E d \in Disposables : DisposableDispose(d)

SpecStore == Init /\ [][StoreNext]_vars

OnPromiseNext ==
    \/ OnPromiseCall
    \/ OnPromiseSettled

SpecOnPromise == InitOnPromise /\ [][OnPromiseNext]_vars

CodecNext ==
    \/ CodecSend
    \/ \E body \in BOOLEAN, tag \in UnknownTags : CodecDamage(body, tag)
    \/ CodecReceive

SpecCodec == InitCodec /\ [][CodecNext]_vars

\* Microtasks and tasks of a running event loop are executed, the transport
\* delivers, time passes, timers fire and the futures of handlers settle.
FairSpec ==
    /\ Init
    /\ [][CallsNext]_vars
    /\ WF_vars(RunQueued)
    /\ \A i \in 1 .. MaxReqs : WF_vars(RunFinally(i))
    /\ WF_vars(ClientReceive)
    /\ WF_vars(ServerReceive)
    /\ WF_vars(FlushPendingRequests)
    /\ WF_vars(Tick)
    /\ \A ch \in ChannelNames, k \in 1 .. MaxReqs : WF_vars(PendingTimeout(ch, k))
    /\ \A id \in Ids :
          WF_vars(\E how \in {"ok", "err", "errobj"} : HandlerSettle(id, how))

\* ------------------------------------------------------------ properties
Sent(i) == i \in 1 .. Len(reqs) /\ reqs[i].nReq > 0

C2_NoFrameAfterSettlement ==
    \A i \in 1 .. Len(reqs) : reqs[i].kind = "call" => ~reqs[i].late

\* C3: a Call deferred for a channel that is registered before the timer of
\* the request expires leads to the channel's handler being invoked with the
\* method and the argument of the call, and to the client receiving the
\* terminal response of the handler.
C3_Deferred(i) ==
    /\ i \in 1 .. Len(reqs)
    /\ \E ch \in channels : \E k \in 1 .. Len(pendingRequests[ch]) :
          LET row == pendingRequests[ch][k]
          IN /\ row.id = reqs[i].id /\ row.type = Promise
             /\ row.timer = "armed" /\ row.remaining > 0

C3_Delivered(i) ==
    /\ i \in 1 .. Len(reqs)
    /\ srv[reqs[i].id].invocations > 0
    /\ srv[reqs[i].id].hName = reqs[i].name
    /\ srv[reqs[i].id].hArg = reqs[i].arg
    /\ reqs[i].termRcvd

C4_InTime ==
    \A id \in Ids : srv[id].timedOut > 0 => srv[id].timeoutAge >= timeoutDelay

C4_Pending(i) ==
    /\ i \in 1 .. Len(reqs)
    /\ \E ch \in ChannelNames : \E k \in 1 .. Len(pendingRequests[ch]) :
          pendingRequests[ch][k].id = reqs[i].id
          /\ pendingRequests[ch][k].type = Promise

C4_Rejected(i) ==
    /\ i \in 1 .. Len(reqs)
    /\ srv[reqs[i].id].timedOut > 0
    /\ \/ reqs[i].outcome = "err" /\ reqs[i].errName = UnknownChannel
       \/ reqs[i].outcome = "cancelled"

C5_TimeoutOrDelivery ==
    \A id \in Ids : ~srv[id].lateDispatch

\* C6: when the token of a call whose future has not settled fires, the
\* future is rejected with Cancelled in that step, queued or sent, and no
\* later frame changes that.
C6_Step ==
    \A i \in 1 .. Len(reqs) :
       /\ (~reqs[i].tokenCancelled /\ reqs'[i].tokenCancelled
           /\ reqs[i].outcome = "pending") => reqs'[i].outcome = "cancelled"
       /\ reqs[i].outcome = "cancelled" => reqs'[i].outcome = "cancelled"

C6_PromptCancel == [][C6_Step]_vars

C6_Witness ==
    \E i, j \in 1 .. Len(reqs) :
       /\ reqs[i].tokenCancelled /\ reqs[i].outcome = "cancelled"
       /\ reqs[i].nReq = 1 /\ reqs[i].late
       /\ reqs[j].tokenCancelled /\ reqs[j].dropped

\* C7: a call cancelled, or a subscription whose last listener was removed,
\* while its dispatch was queued puts no frame on the wire: no Call or
\* Subscribe and no Cancel or Unsubscribe.
C7_DroppedSendsNothing ==
    \A i \in 1 .. Len(reqs) :
       reqs[i].dropped =>
          IF reqs[i].kind = "call"
          THEN reqs[i].nReq = 0 /\ reqs[i].nStop = 0
          ELSE reqs[i].cycReq = 0 /\ reqs[i].cycStop = 0

\* a subscription of the event of a listen() has ended
CycleEnded(i) ==
    /\ reqs[i].kind = "event"
    /\ reqs[i].listeners = 0
    /\ reqs[i].cycles > 0

\* C8 (as stated): from the first listener to the removal of the last one
\* the client emits exactly one Subscribe and exactly one Unsubscribe.
C8_OneSubscribeOneUnsubscribe ==
    \A i \in 1 .. Len(reqs) :
       CycleEnded(i) => reqs[i].cycReq = 1 /\ reqs[i].cycStop = 1

\* C8 (amended): ... exactly one Subscribe and one Unsubscribe when the
\* Subscribe had been sent before the last listener was removed, and no
\* frame at all when the last listener was removed while the subscribe was
\* still queued; in between at most one Subscribe and no Unsubscribe.
C8_SubscriptionLifecycle ==
    \A i \in 1 .. Len(reqs) :
       /\ CycleEnded(i) =>
             IF reqs[i].dropped
             THEN reqs[i].cycReq = 0 /\ reqs[i].cycStop = 0
             ELSE reqs[i].cycReq = 1 /\ reqs[i].cycStop = 1
       /\ (reqs[i].kind = "event" /\ reqs[i].listeners > 0) =>
             /\ reqs[i].cycReq <= 1 /\ reqs[i].cycStop = 0
             /\ reqs[i].cycReq = 1 <=> reqs[i].phase = "sent"

C8_Witness ==
    \E i \in 1 .. Len(reqs) :
       /\ CycleEnded(i) /\ ~reqs[i].dropped /\ reqs[i].adds = 2
       /\ reqs[i].cycles = 1 /\ reqs[i].cycReq = 1 /\ reqs[i].cycStop = 1

\* the number of frames in the logs of the connections S
RECURSIVE TotalLen(_, _)
TotalLen(log, S) ==
    IF S = {} THEN 0
    ELSE LET c == CHOOSE x \in S : TRUE
         IN  Len(log[c]) + TotalLen(log, S \ {c})

\* C9: the multicast output fires once for every EventFire frame a matching
\* live connection delivers for its subscription (N connections with K
\* frames each give N*K fires, none lost, none duplicated), and the frames
\* of one connection reach the output in the order it delivered them.
C9_HubFanIn ==
    /\ \A c \in Conns : output[c] = delivered[c]
    /\ TotalLen(output, Conns) = TotalLen(delivered, Conns)

C9_Witness ==
    /\ \A c \in Conns :
          /\ hubConns[c].status = "live" /\ hubConns[c].match
          /\ delivered[c] = [j \in 1 .. MaxFrames |-> j]
    /\ TotalLen(output, Conns) = MaxConns * MaxFrames

\* the route was issued on an empty hub and a connection whose predicate
\* yields true is now in the hub
MatchingLive ==
    /\ route.emptyAtCall
    /\ \E j \in 1 .. Len(connections) : ctxMatch[connections[j]] = "yes"

\* C10 (as stated): a route issued while the hub has no connection resolves
\* eventually once a connection whose predicate yields true has been added;
\* checked in its weakest reading, where that connection stays in the hub.
C10_RouteResolves ==
    (<>[]MatchingLive) => <>(route.pc = "done")

\* C11: what the receiving end reads from a frame written as header
\* followed by body is that header and that body, each value with the kind
\* and the content it was written with, for every value built from
\* undefined, strings, Buffers, VSBuffers, arrays and JSON values.
C11_RoundTrip ==
    (codec.phase = "received" /\ ~codec.damaged) =>
        /\ ~codec.got.threw
        /\ codec.got.header = codec.header
        /\ codec.got.body = codec.body
        /\ codec.got.type = HeaderType(codec.header)
        /\ deserialize(serialize(codec.body), 1).v = codec.body

C11_Witness ==
    /\ codec.phase = "received" /\ ~codec.damaged
    /\ codec.header = RequestHeader(Promise, 1)
    /\ codec.body = ArrayValue(<<StringValue(<<233>>), BufferValue(<<4>>)>>)
    /\ codec.got.body = codec.body

\* C12: a frame that contains a tag outside the six DataTypes is rejected
\* when it is read: the read fails and the frame is dispatched neither as a
\* request nor as a response.
C12_UnknownTagRejected ==
    (codec.phase = "received" /\ codec.damaged) =>
        codec.got.threw /\ codec.got.type = 0

\* C13: while the client is Uninitialized it has sent no Call and no
\* Subscribe frame; reading Initialize makes it Idle; a call or subscription
\* waits in the queue of whenInitialized() exactly while it is queued, and it
\* leaves the queue only by being sent or by having been cancelled; once the
\* client is Idle and its continuations have run nothing is left queued.
C13_Queued(i) == \E k \in 1 .. Len(initQueue) : initQueue[k] = i

C13_Gate ==
    /\ state = "Uninitialized" =>
          /\ \A i \in 1 .. Len(reqs) : reqs[i].nReq = 0
          /\ \A k \in 1 .. Len(c2s) : c2s[k].type \notin {Promise, EventListen}
    /\ \A i \in 1 .. Len(reqs) : reqs[i].phase = "queued" <=> C13_Queued(i)
    /\ (state = "Idle" /\ ~Runnable) =>
          \A i \in 1 .. Len(reqs) : reqs[i].phase # "queued"

C13_Step ==
    /\ (s2c # <<>> /\ Head(s2c).type = Initialize /\ s2c' = Tail(s2c)) =>
          state' = "Idle"
    /\ state' # state => (state = "Uninitialized" /\ state' = "Idle")
    /\ \A i \in 1 .. Len(reqs) :
          (reqs[i].phase = "queued" /\ reqs'[i].phase # "queued") =>
             \/ /\ reqs'[i].nReq = reqs[i].nReq + 1
                /\ c2s' = Append(c2s, SendRequestFrame(reqs[i],
                             IF reqs[i].kind = "call" THEN Promise
                             ELSE EventListen))
             \/ reqs'[i].dropped

C13_InitializeGate == [](C13_Gate) /\ [][C13_Step]_vars

\* both calls were issued before Initialize was read; the client is Idle, the
\* first has been sent and the second is the next continuation to run
C13_Witness ==
    /\ state = "Idle"
    /\ Len(reqs) = 2
    /\ reqs[1].kind = "call" /\ reqs[1].nReq = 1 /\ reqs[1].phase = "sent"
    /\ reqs[2].kind = "call" /\ reqs[2].phase = "queued"
    /\ initQueue = <<2>>

\* C14: when the server reads a Cancel or Unsubscribe frame whose id has no
\* row in activeRequests, its channels, its activeRequests, its deferred rows
\* and their timers, and what its handlers have seen stay as they were, and
\* it sends no frame.
C14_Step ==
    (/\ c2s # <<>>
     /\ c2s' = Tail(c2s)
     /\ Head(c2s).type \in {PromiseCancel, EventDispose}
     /\ srvActiveRequests[Head(c2s).id] = "none") =>
        UNCHANGED <<channels, srvActiveRequests, pendingRequests, flushTimers,
                    srv, s2c>>

C14_UnknownIdIgnored == [][C14_Step]_vars

\* the Cancel of a call was read while the call's request was deferred: the
\* row is still among the deferred rows
C14_Witness ==
    \E i \in 1 .. Len(reqs) :
        /\ reqs[i].kind = "call"
        /\ reqs[i].nStop = 1
        /\ c2s = <<>>
        /\ srvActiveRequests[reqs[i].id] = "none"
        /\ \E k \in 1 .. Len(pendingRequests["c1"]) :
               pendingRequests["c1"][k].id = reqs[i].id

\* C15: the step of the disconnect listener settles every call of the client
\* half that was pending, queued or sent, as cancelled, disposes every row of
\* the server half's activeRequests (the token of a call is cancelled, the
\* listener of an event is detached) and leaves that map empty.
C15_Step ==
    (~isDisposed /\ isDisposed') =>
        /\ \A i \in 1 .. Len(reqs) :
              (reqs[i].kind = "call" /\ reqs[i].outcome = "pending") =>
                  reqs'[i].outcome = "cancelled"
        /\ \A id \in Ids :
              /\ srvActiveRequests[id] = "call" => srv'[id].tokenCancelled
              /\ srvActiveRequests[id] = "event" =>
                     srv'[id].listeners = srv[id].listeners - 1
              /\ srvActiveRequests'[id] = "none"

C15_DisconnectSettles == [][C15_Step]_vars

\* disconnected with one call that was still queued and one that had been
\* sent and was running in its handler
C15_Witness ==
    /\ isDisposed /\ ~srvProtocolListener
    /\ Len(reqs) = 2
    /\ reqs[1].outcome = "cancelled" /\ reqs[1].nReq = 1 /\ reqs[1].nStop = 1
    /\ ~reqs[1].tokenCancelled
    /\ reqs[2].outcome = "cancelled" /\ reqs[2].dropped
    /\ ~reqs[2].tokenCancelled
    /\ srv[reqs[1].id].tokenCancelled /\ srv[reqs[1].id].running > 0

\* C16: once ChannelClient.dispose() has run (its protocol listener is gone),
\* a new call() is rejected as cancelled at once; it takes no id, installs no
\* handler, enters neither activeRequests nor the queue of whenInitialized()
\* and writes no frame.
C16_Step ==
    (/\ ~protocolListener
     /\ Len(reqs') = Len(reqs) + 1
     /\ reqs'[Len(reqs')].kind = "call") =>
        /\ reqs'[Len(reqs')].outcome = "cancelled"
        /\ reqs'[Len(reqs')].nReq = 0
        /\ UNCHANGED <<lastRequestId, handlers, activeRequests, initQueue, c2s>>

C16_CallAfterDispose == [][C16_Step]_vars

\* a call made before dispose() has its frame on the wire, the call made
\* after it was rejected without an id
C16_Witness ==
    /\ isDisposed /\ ~protocolListener
    /\ Len(reqs) = 2
    /\ reqs[1].kind = "call" /\ reqs[1].nReq = 1
    /\ reqs[2].kind = "call" /\ reqs[2].id = NoId
    /\ reqs[2].outcome = "cancelled" /\ reqs[2].nReq = 0
    /\ handlers = [id \in Ids |-> IF id = reqs[1].id THEN 1 ELSE 0]

\* C17: the response of onPromise to a call its channel has answered is one
\* frame with the request's id: PromiseSuccess with the value when the future
\* resolved; PromiseError with the error's message and name, and with its
\* stack as the lines of the stack text, when the handler rejected with or
\* threw an Error; PromiseErrorObj with the value itself when it rejected
\* with or threw anything else.
RECURSIVE C17_JoinLines(_)
C17_JoinLines(lines) ==
    IF Len(lines) = 1 THEN lines[1]
    ELSE lines[1] \o <<10>> \o C17_JoinLines(Tail(lines))

C17_IsSplitOf(lines, text) ==
    /\ Len(lines) >= 1
    /\ \A k \in 1 .. Len(lines) : \A j \in 1 .. Len(lines[k]) : lines[k][j] # 10
    /\ C17_JoinLines(lines) = text

C17_ResponseMapping ==
    /\ promiseCall.pc = "called" =>
          /\ promiseCall.row
          /\ promiseCall.promise.settled =
                IF promiseCall.outcome.how = "resolve" THEN "fulfilled"
                ELSE "rejected"
    /\ promiseCall.pc = "responded" =>
        LET o == promiseCall.outcome
            rs == promiseCall.response
        IN  /\ Len(rs) = 1
            /\ rs[1].id = promiseCall.id
            /\ ~promiseCall.row
            /\ o.how = "resolve" =>
                  rs[1].type = PromiseSuccess /\ rs[1].data = o.v.payload
            /\ (o.how \in {"reject", "throw"} /\ o.v.isError) =>
                  /\ rs[1].type = PromiseError
                  /\ rs[1].data.message = o.v.message
                  /\ rs[1].data.name = o.v.name
                  /\ (o.v.stack.k = "text" /\ o.v.stack.text # <<>>) =>
                        /\ rs[1].data.stack.k = "lines"
                        /\ C17_IsSplitOf(rs[1].data.stack.lines, o.v.stack.text)
            /\ (o.how \in {"reject", "throw"} /\ ~o.v.isError) =>
                  rs[1].type = PromiseErrorObj /\ rs[1].data = o.v.payload

\* the handler threw a TypeError with a stack of two lines synchronously
C17_Witness ==
    /\ promiseCall.pc = "responded"
    /\ promiseCall.outcome =
          Throws(ErrorValue("failed", "TypeError", TextStack(<<97, 10, 98>>)))
    /\ promiseCall.response[1].type = PromiseError
    /\ promiseCall.response[1].data.stack.lines = <<(<<97>>), (<<98>>)>>

\* C18: for every id of a Call the server has sent at most one terminal
\* response (PromiseSuccess, PromiseError or PromiseErrorObj), counting the
\* PromiseError of the timer of a deferred request and the responses to the
\* futures of the handler; a Call id gets no other frame, so the terminal
\* response is then the last frame with that id.
C18_OneTerminalResponse ==
    \A id \in Ids : srv[id].timedOut + srv[id].terminals <= 1

\* C19: the ChannelServer of every connection of the hub has, for every name
\* registered on the hub, the handler the hub has for it.
C19_ChannelsEverywhere ==
    \A c \in Conns :
        hubConns[c].status = "live" =>
            \A n \in HubChannelNames :
                hubChannels.handler[n] # 0 =>
                    hubConns[c].channels[n] = hubChannels.handler[n]

\* "c1" was registered twice: connection 1 was live at the second
\* registration at the latest, connection 2 was added after both
C19_Witness ==
    /\ hubChannels.regs = 2
    /\ hubChannels.handler["c1"] = 2
    /\ hubConns[1].status = "live" /\ hubConns[2].status = "live"
    /\ hubConns[1].flushTimers = <<"c1", "c1">>
    /\ hubConns[2].flushTimers = <<"c1">>
    /\ hubConns[1].channels["c1"] = 2 /\ hubConns[2].channels["c1"] = 2

\* C20: no listener observes the value of an EventFire frame that belongs to
\* a subscription whose last listener has been removed.  While the Subscribe
\* of the current listeners is still on its way to the server, every
\* EventFire frame with the id is such a frame: no value is observed then.
C20_SubscribePending(i) ==
    \E k \in 1 .. Len(c2s) :
        c2s[k].type = EventListen /\ c2s[k].id = reqs[i].id

C20_Step ==
    \A i \in 1 .. Len(reqs) :
        (reqs[i].kind = "event" /\ reqs'[i].observed > reqs[i].observed) =>
            ~C20_SubscribePending(i)

C20_NoResidualObserved == [][C20_Step]_vars

\* C21: a listener is called at most once.  The first cancel() calls every
\* listener that is registered with the token at that time, once, and leaves
\* none registered; a further cancel() changes nothing.  A listener
\* registered after cancellation is not called by the registration; it waits
\* in a timer and leaves it only by being called or by its registration
\* being disposed.
C21_Inv ==
    \A r \in Listeners :
        LET reg == token.regs[r]
        IN  /\ reg.calls <= 1
            /\ token.isCancelled => reg.at # "emitter"
            /\ (reg.at = "gone" /\ ~reg.unregistered /\ ~reg.cleared) =>
                   reg.calls = 1
            /\ (reg.unregistered \/ reg.cleared) => reg.calls = 0

C21_Step ==
    /\ (token'.cancels # token.cancels /\ ~token.isCancelled) =>
          \A r \in Listeners :
              token.regs[r].at = "emitter" => token'.regs[r].calls = 1
    /\ (token'.cancels # token.cancels /\ token.isCancelled) =>
          token'.regs = token.regs /\ token'.isCancelled
    /\ \A r \in Listeners :
          /\ token.regs[r].at = "none" =>
                /\ token'.regs[r].calls = 0
                /\ (token.isCancelled /\ token'.regs[r].at # "none") =>
                       token'.regs[r].at = "timer"
          /\ (token.regs[r].at = "timer" /\ token'.regs[r].at # "timer") =>
                \/ token'.regs[r].calls = 1
                \/ token'.regs[r].unregistered

C21_CancelledOnce == [](C21_Inv) /\ [][C21_Step]_vars

\* cancel() ran twice; listener 1 was registered before and called once,
\* listener 2 was registered after and called once by its timer, listener 3
\* was registered after and its registration was disposed before the timer
C21_Witness ==
    /\ token.isCancelled /\ token.cancels = 2
    /\ token.regs[1] = [NoRegistration EXCEPT !.at = "gone", !.calls = 1]
    /\ token.regs[2] = [NoRegistration EXCEPT !.at = "gone", !.calls = 1,
                                              !.late = TRUE]
    /\ token.regs[3] = [NoRegistration EXCEPT !.at = "gone", !.late = TRUE,
                                              !.unregistered = TRUE]

\* C22: a disposable passed to add() of a store that has been disposed is
\* disposed by that call.
C22_Step ==
    \A d \in Disposables :
        (store.isDisposed /\ ~store.st[d].offered /\ store'.st[d].offered) =>
            store'.st[d].disposals > 0

C22_AddAfterDispose == [][C22_Step]_vars

\* call i has settled and the microtask of its finally() has run
C23_Settled(i) ==
    /\ reqs[i].kind = "call"
    /\ reqs[i].id # NoId
    /\ reqs[i].outcome # "pending"
    /\ i \notin finallyQueue

C23_HasSink(i) == \E k \in 1 .. Len(activeRequests) : activeRequests[k] = i

\* C23: once a call has settled (by a response or by cancellation) the
\* client holds neither a handler row for its id nor its active-cancel sink.
C23_SettledHoldsNothing ==
    \A i \in 1 .. Len(reqs) :
        C23_Settled(i) => handlers[reqs[i].id] # i /\ ~C23_HasSink(i)

\* the server reads a Cancel or Unsubscribe whose id has a row in activeRequests
C24_Reads ==
    /\ c2s # <<>>
    /\ c2s' = Tail(c2s)
    /\ Head(c2s).type \in {PromiseCancel, EventDispose}
    /\ srvActiveRequests[Head(c2s).id] # "none"

\* C24: reading Cancel(id) or Unsubscribe(id) for an id with an active row
\* runs the row's disposer and removes the row: the token given to the
\* handler of a call is cancelled, the listener that the row's Subscribe put
\* on the handler's event is removed.
C24_Step ==
    C24_Reads =>
        LET id == Head(c2s).id
        IN  /\ srvActiveRequests'[id] = "none"
            /\ srvActiveRequests[id] = "call" => srv'[id].tokenCancelled
            /\ srvActiveRequests[id] = "event" =>
                   srv'[id].listeners = srv[id].listeners - 1
            /\ s2c' = s2c

C24_DisposeActiveRow == [][C24_Step]_vars

\* as C24, and after the step no listener for the id is left on the handler's
\* event, so that later values produce no EventFire for the id
C24_NoLaterEventFire ==
    [][C24_Reads =>
         (/\ srvActiveRequests'[Head(c2s).id] = "none"
          /\ srvActiveRequests[Head(c2s).id] = "call" =>
                 srv'[Head(c2s).id].tokenCancelled
          /\ srvActiveRequests[Head(c2s).id] = "event" =>
                 srv'[Head(c2s).id].listeners = 0)]_vars

\* the server has read the Cancel of a call its handler was running, and the
\* Unsubscribe of a subscription it had installed
C24_Witness ==
    /\ c2s = <<>>
    /\ \E i \in 1 .. Len(reqs) :
          /\ reqs[i].kind = "call" /\ reqs[i].nStop = 1
          /\ srv[reqs[i].id].running = 1
          /\ srv[reqs[i].id].tokenCancelled
          /\ srvActiveRequests[reqs[i].id] = "none"
    /\ \E i \in 1 .. Len(reqs) :
          /\ reqs[i].kind = "event" /\ reqs[i].nReq = 1 /\ reqs[i].nStop = 1
          /\ ~srv[reqs[i].id].deferred
          /\ srv[reqs[i].id].listeners = 0
          /\ srvActiveRequests[reqs[i].id] = "none"

\* C25: once the server is disposed it consumes no frame, its active map is
\* empty with every row disposed, and no deferred row produces a timeout
\* response or is dispatched to a handler.
C25_Step ==
    /\ (srvProtocolListener /\ ~srvProtocolListener') =>
          /\ \A id \in Ids : srvActiveRequests'[id] = "none"
          /\ \A id \in Ids :
                 srvActiveRequests[id] = "call" => srv'[id].tokenCancelled
    /\ ~srvProtocolListener =>
          /\ Len(c2s') >= Len(c2s)
          /\ \A id \in Ids :
                /\ srvActiveRequests'[id] = "none"
                /\ srv'[id].timedOut = srv[id].timedOut
                /\ srv'[id].running <= srv[id].running
                /\ srv'[id].listeners <= srv[id].listeners
          /\ \A k \in 1 .. Len(s2c') :
                (s2c'[k].name = UnknownChannel) =>
                    \E j \in 1 .. Len(s2c) : s2c[j] = s2c'[k]

C25_DisposedServerIsSilent == [][C25_Step]_vars

\* the deferred rows of channel ch that carry id and are of the given type
C26_Rows(ch, id, type) ==
    {k \in 1 .. Len(pendingRequests[ch]) :
        pendingRequests[ch][k].id = id /\ pendingRequests[ch][k].type = type}

\* C26: the step of registerChannel sets the mapping and arms the flush; it
\* dispatches nothing and sends nothing.  The flush is a later step: it
\* dispatches every deferred row of the channel to the handler, leaves no row
\* (and so no timer) of the channel behind, and touches no other channel.
C26_Step ==
    /\ channels' # channels =>
          /\ \E ch \in ChannelNames \ channels :
                /\ channels' = channels \cup {ch}
                /\ flushTimers' = Append(flushTimers, ch)
          /\ UNCHANGED <<pendingRequests, srv, srvActiveRequests, s2c>>
    /\ (flushTimers # <<>> /\ flushTimers' = Tail(flushTimers)) =>
          LET ch == Head(flushTimers)
          IN  /\ pendingRequests' = [pendingRequests EXCEPT ![ch] = <<>>]
              /\ \A id \in Ids :
                    /\ srv'[id].running =
                          Min(srv[id].running
                                + Cardinality(C26_Rows(ch, id, Promise)), 2)
                    /\ srv'[id].listeners =
                          Min(srv[id].listeners
                                + Cardinality(C26_Rows(ch, id, EventListen)), 2)
                    /\ C26_Rows(ch, id, Promise) # {} =>
                          srvActiveRequests'[id] = "call"
                    /\ C26_Rows(ch, id, EventListen) # {} =>
                          srvActiveRequests'[id] = "event"

C26_Armed(ch) == \E k \in 1 .. Len(flushTimers) : flushTimers[k] = ch

C27_Expires(ch, k) ==
    /\ k \in 1 .. Len(pendingRequests[ch])
    /\ Len(pendingRequests'[ch]) = Len(pendingRequests[ch])
    /\ pendingRequests[ch][k].timer = "armed"
    /\ pendingRequests'[ch][k].timer = "fired"

\* C27: when the timer of a deferred Subscribe fires, no frame is emitted.
C27_Step ==
    \A ch \in ChannelNames, k \in 1 .. MaxReqs :
        (C27_Expires(ch, k) /\ pendingRequests[ch][k].type = EventListen) =>
            s2c' = s2c

C27_SubscribeExpiresSilently == [][C27_Step]_vars

\* the timer of a deferred Subscribe has fired and no frame carries its id
C27_Witness ==
    \E ch \in ChannelNames : \E k \in 1 .. Len(pendingRequests[ch]) :
        /\ pendingRequests[ch][k].type = EventListen
        /\ pendingRequests[ch][k].timer = "fired"
        /\ \A j \in 1 .. Len(s2c) : s2c[j].id # pendingRequests[ch][k].id

\* C28: a Subscribe for an event name the registered channel does not have
\* is answered with a response of type PromiseError for the request's id.
C28_UnknownEventAnswered ==
    (/\ listenCall.pc = "returned"
     /\ ServiceListen(listenCall.service, listenCall.event) = "throw") =>
        \E k \in 1 .. Len(listenCall.sent) :
            /\ listenCall.sent[k].type = PromiseError
            /\ listenCall.sent[k].id = listenCall.id

\* the positions of the events of one kind for transport c
C29_Fires(kind, c) ==
    {k \in 1 .. Len(ipcServer.events) : ipcServer.events[k] = <<kind, c>>}

\* C29: _connections holds exactly the transports whose context frame was
\* received and whose disconnect signal has not arrived since.  The add event
\* fires once for such a transport, the remove event only after the add
\* event, and at most once.
C29_Inv ==
    /\ ipcServer.connections =
          {c \in Clients : ipcServer.tr[c].phase = "added"}
    /\ \A c \in Clients :
          LET adds == C29_Fires("add", c)
              removes == C29_Fires("remove", c)
          IN  /\ Cardinality(adds) =
                    IF ipcServer.tr[c].phase \in {"added", "removed"}
                        THEN 1 ELSE 0
              /\ Cardinality(removes) =
                    IF ipcServer.tr[c].phase = "removed" THEN 1 ELSE 0
              /\ \A r \in removes : \E a \in adds : a < r
              /\ ipcServer.tr[c].phase = "removed" =>
                    ipcServer.tr[c].halves = "disposed"

C29_Step ==
    \A c \in Clients :
        /\ (c \notin ipcServer.connections /\ c \in ipcServer'.connections) =>
              /\ ipcServer.tr[c].phase = "connected"
              /\ ipcServer'.events = Append(ipcServer.events, <<"add", c>>)
        /\ (c \in ipcServer.connections /\ c \notin ipcServer'.connections) =>
              /\ ipcServer'.tr[c].closed
              /\ ipcServer'.tr[c].halves = "disposed"
              /\ ipcServer'.events = Append(ipcServer.events, <<"remove", c>>)

C29_Connections == [](C29_Inv) /\ [][C29_Step]_vars

\* transport 1 was added and removed, transport 2 is a connection, transport
\* 3 has disconnected without sending its context
C29_Witness ==
    /\ ipcServer.tr[1].phase = "removed"
    /\ ipcServer.tr[2].phase = "added"
    /\ ipcServer.tr[3].phase = "connected" /\ ipcServer.tr[3].closed
    /\ ipcServer.connections = {2}

C30_Matching == {c \in filterCall.conns : filterCall.match[c] = "yes"}

\* C30: a call through a filtered hub channel is made on a connection the
\* filter accepts and the hub still holds.  With matching connections at
\* call time one of them is taken; otherwise the call waits, no matching
\* connection exists while it waits, and the first matching connection added
\* is taken.  A call that has its connection is eventually made.
C30_Inv ==
    /\ filterCall.pc = "called" =>
          /\ filterCall.sentOn = filterCall.conn
          /\ filterCall.match[filterCall.sentOn] = "yes"
    /\ filterCall.pc = "waiting" => C30_Matching = {}
    /\ filterCall.pc \in {"none", "waiting"} => filterCall.sentOn = 0

C30_Step ==
    /\ (filterCall.pc = "none" /\ filterCall'.pc # "none") =>
          IF C30_Matching # {}
              THEN filterCall'.pc = "resolved" /\ filterCall'.conn \in C30_Matching
              ELSE filterCall'.pc = "waiting"
    /\ \A c \in Clients :
          (/\ filterCall.pc = "waiting"
           /\ c \notin filterCall.conns
           /\ c \in filterCall'.conns
           /\ filterCall'.match[c] = "yes") =>
              filterCall'.pc = "resolved" /\ filterCall'.conn = c
    /\ (filterCall.pc # "called" /\ filterCall'.pc = "called") =>
          filterCall'.sentOn \in filterCall.conns
    /\ filterCall.pc \in {"resolved", "gotChannel", "called"} =>
          filterCall'.conn = filterCall.conn

C30_FilteredCall ==
    /\ [](C30_Inv)
    /\ [][C30_Step]_vars
    /\ (filterCall.pc = "resolved") ~> (filterCall.pc = "called")

\* the call waited, a connection the filter rejects was added first, and the
\* call was made on the matching connection added after it
C30_Witness ==
    /\ filterCall.pc = "called"
    /\ filterCall.waited
    /\ filterCall.match[1] = "no"
    /\ filterCall.match[2] = "yes"
    /\ filterCall.sentOn = 2

\* connection c holds a subscription of the multicast event: the multiplexer
\* has a listener on the event of the connection's client
C31_Subscribed(c) == hubConns[c].hooked

\* C31: while the multicast event has a listener, the connections holding a
\* subscription are exactly the live connections the filter accepts, each
\* with one listener on its client's event; while it has none, no connection
\* holds a subscription and no client's event has a listener left.
C31_MulticastSubscriptions ==
    /\ outListeners > 0 =>
          \A c \in Conns :
              /\ C31_Subscribed(c) <=>
                    (hubConns[c].status = "live" /\ hubConns[c].match)
              /\ C31_Subscribed(c) =>
                    /\ hubConns[c].em.listeners = 1
                    /\ hubConns[c].em.phase \in {"queued", "sent"}
              /\ ~C31_Subscribed(c) => hubConns[c].em.listeners = 0
    /\ outListeners = 0 =>
          \A c \in Conns :
              /\ ~C31_Subscribed(c)
              /\ ~hubConns[c].inMux
              /\ hubConns[c].em.listeners = 0
              /\ hubConns[c].em.phase = "none"

\* the last listener was removed: connection 1, subscribed before, holds no
\* subscription any more, and connection 2, added afterwards, was never
\* subscribed
C31_Witness ==
    /\ outAdds > 0
    /\ outListeners = 0
    /\ hubConns[1].status = "live" /\ hubConns[1].match
    /\ hubConns[1].em.id # NoId
    /\ hubConns[2].status = "live" /\ hubConns[2].match
    /\ hubConns[2].em.id = NoId

\* C32: the first frame of an IPCClient is its encoded context, the second
\* the Initialize of its server half, and requests follow.  The hub takes
\* the first frame it reads as the context and dispatches no request for it;
\* every request it dispatches afterwards is given that context.
C32_ContextFirst ==
    /\ handshake.constructed =>
          /\ Len(handshake.sent) = 2 + handshake.requests
          /\ handshake.sent[1] = serialize(handshake.ctx)
          /\ onBuffer(handshake.sent[2]).type = Initialize
          /\ \A k \in 3 .. Len(handshake.sent) :
                onRawMessage(handshake.sent[k]).type \in {Promise, EventListen}
    /\ handshake.read >= 1 =>
          /\ handshake.hub.phase = "serving"
          /\ handshake.hub.ctx = handshake.ctx
    /\ handshake.hub.state = "Idle" <=> handshake.read >= 2
    /\ Len(handshake.hub.dispatched) =
          IF handshake.read > 2 THEN handshake.read - 2 ELSE 0
    /\ \A k \in 1 .. Len(handshake.hub.dispatched) :
          handshake.hub.dispatched[k].ctx = handshake.ctx

\* the hub has read the context, the Initialize and two requests of an
\* endpoint whose context is an object, and has dispatched the two requests
C32_Witness ==
    /\ handshake.ctx = ObjectValue(JObj(<< <<97>> >>, <<JTrue>>))
    /\ handshake.read = 4
    /\ Len(handshake.hub.dispatched) = 2
    /\ handshake.hub.dispatched[1].type = EventListen

\* C33: dispose() of a Client endpoint disposes the client half (the calls in
\* flight settle as cancelled, a later call is rejected as cancelled) and the
\* active requests of the server half.
C33_Step ==
    /\ (~portClosed /\ portClosed') =>
          /\ isDisposed'
          /\ \A i \in 1 .. Len(reqs) :
                reqs[i].kind = "call" => reqs'[i].outcome # "pending"
          /\ \A id \in Ids : srvActiveRequests'[id] = "none"
    /\ (portClosed /\ Len(reqs') > Len(reqs)) =>
          reqs'[Len(reqs')].outcome = "cancelled"

C33_ClientDisposeSettles == [][C33_Step]_vars

\* C34: the client's handlers map has a row for the id of a subscription only
\* while that subscription is active on the wire (its Subscribe was sent and
\* no Unsubscribe since): an event nobody listens to has no row, and after
\* the Unsubscribe, or the cancellation of the queued subscribe, the row is
\* gone.
C34_RowOnlyWhileSubscribed ==
    \A i \in 1 .. Len(reqs) :
        (reqs[i].kind = "event" /\ handlers[reqs[i].id] = i) =>
            /\ reqs[i].phase = "sent"
            /\ reqs[i].nReq = reqs[i].nStop + 1

\* C35: a step of the client puts Cancel(id) on the wire only for a call that
\* was sent, is not yet settled and has had no Cancel before: firing the
\* token, or disposing the client, after the call settled sends nothing.
C35_Step ==
    \A i \in 1 .. Len(reqs) :
        (reqs[i].kind = "call" /\ reqs'[i].nStop > reqs[i].nStop) =>
            /\ reqs[i].nStop = 0
            /\ reqs[i].nReq >= 1
            /\ reqs[i].outcome = "pending"

C35_CancelOnceWhilePending == [][C35_Step]_vars

\* C36: the calls of one channel reach the channel's handler in the order in
\* which the server received them: when a received Call is handed to the
\* handler, no Call the server received earlier for the same channel is still
\* waiting among the deferred rows.
C36_Step ==
    (/\ c2s # <<>>
     /\ c2s' = Tail(c2s)
     /\ Head(c2s).type = Promise
     /\ srv'[Head(c2s).id].invocations > srv[Head(c2s).id].invocations) =>
        \A k \in 1 .. Len(pendingRequests'[Head(c2s).ch]) :
            pendingRequests'[Head(c2s).ch][k].type # Promise

C36_HandlerSeesReceiveOrder == [][C36_Step]_vars

\* C37: Call and Subscribe frames leave the client in the order in which the
\* caller issued them: when such a frame is put on the wire, either nothing
\* issued earlier is still waiting for whenInitialized(), or the frame is
\* that of the oldest waiting request.
C37_Step ==
    (/\ Len(c2s') = Len(c2s) + 1
     /\ SubSeq(c2s', 1, Len(c2s)) = c2s
     /\ c2s'[Len(c2s')].type \in {Promise, EventListen}) =>
        \/ initQueue = <<>>
        \/ initQueue' = Tail(initQueue)

C37_FramesInIssueOrder == [][C37_Step]_vars

\* C38: after ChannelServer.dispose() the settling of a handler's future puts
\* no frame on the transport.
C38_Step ==
    \A id \in Ids :
        (~srvProtocolListener /\ srv'[id].running < srv[id].running) =>
            s2c' = s2c

C38_NoResponseAfterDispose == [][C38_Step]_vars

\* C39: when route resolves, the connection it resolves with is one of the
\* hub's connections at that moment and its predicate yielded true.
C39_Step ==
    (route.pc # "done" /\ route'.pc = "done") =>
        /\ \E j \in 1 .. Len(connections') : connections'[j] = route'.result
        /\ ctxMatch'[route'.result] = "yes"

C39_RouteResolvesLive == [][C39_Step]_vars

\* C40: once the flush of a registered channel has run, every row deferred
\* for the channel has been handed to the handler and none has a timer still
\* armed, also when the dispatch of one of the rows threw.
C40_FlushReachesEveryRow ==
    flushRun.flushed =>
        \A k \in 1 .. Len(flushRun.rows) :
            /\ flushRun.rows[k].dispatched
            /\ flushRun.rows[k].timer # "armed"
====
